---- MODULE Spec2Model ----
(***************************************************************************)
(* ImageCropper: the navigation controller (src/app/mod.rs), the loader    *)
(* (src/app/loader.rs), the saver worker pool (src/app/saver.rs) and the   *)
(* holding-directory helpers (src/fs_utils.rs), over a small file system.  *)
(***************************************************************************)
EXTENDS Integers, Sequences, FiniteSets, TLC

(* ------------------------------ bounds --------------------------------- *)
\* largest saver pool size tried (Saver::new(concurrency))
MaxWorkers == 2
\* number of navigation commands (enter, space, backspace, delete, a button)
\* the operator gives in one run; escape and the pointer are not counted
MaxCmds == 3
\* number of injected I/O failures (encoder, metadata read) in one run
MaxFaults == 1
\* number of queue_save calls when the Saver is driven through its API
MaxCalls == 2
\* number of load and take calls when the Loader is driven through its API
MaxLoaderCalls == 4
\* number of push_history calls when the History is driven through its API
MaxPush == 12
\* number of navigation commands when only navigation is exercised
MaxNav == 6
\* commands given in a run of CropSpec
MaxCrop == 4
\* commands given in a run of AdvanceSpec
MaxAdvance == 4
\* commands given in a run of WaitSpec
MaxWait == 3
\* levels of sub-directories, and paths given to collect_images
MaxDepth == 2
MaxRoots == 2
\* suffixed names of one file that a directory may already hold
MaxTaken == 2

(* --------------------------- program constants ------------------------- *)
\* escape presses that force the exit (3usize.saturating_sub(count))
ExitThreshold == 3
\* capacity of the undo history
HistoryCap == 10

(* ------------------------------ universes ------------------------------ *)
None == "none"
\* Option::None for a path or image, a file name, file contents
NoPath == [stem |-> "", ext |-> ""]
NoFile == <<"", "", 0, "">>
NoData == <<"none", 0>>

\* the scanned directory at start-up: a.png carries EXIF/ICC, b.jpg does not
SourceFiles == << [stem |-> "a", ext |-> "png"], [stem |-> "b", ext |-> "jpg"] >>
\* the same directory with the first extension spelled in capitals
CapitalFiles == << [stem |-> "a", ext |-> "PNG"], [stem |-> "b", ext |-> "jpg"] >>
MetaStems == {"a"}

\* the command lines tried: every pair of settings of two options occurs;
\* Png stands for the three containers img_parts can rewrite, Avif for the
\* one it cannot
Configs == { [format |-> "png",  resave |-> FALSE, dry_run |-> FALSE],
             [format |-> "avif", resave |-> TRUE,  dry_run |-> FALSE],
             [format |-> "png",  resave |-> TRUE,  dry_run |-> TRUE],
             [format |-> "avif", resave |-> FALSE, dry_run |-> TRUE] }

Keys == {"escape", "enter", "space", "backspace", "delete"}
Buttons == {"start_over", "quit"}
Shapes == {"ok"}

(* OutputFormat::extension *)
Extension(format) == format

(* OsStr::to_ascii_lowercase of an extension: the extensions that occur are *)
(* in lower case or one of the two spelled in capitals                     *)
to_ascii_lowercase(e) == IF e = "PNG" THEN "png" ELSE IF e = "JPG" THEN "jpg" ELSE e

(* Path::with_extension *)
WithExtension(p, e) == [p EXCEPT !.ext = e]

(* ------------------------------ file system ---------------------------- *)
\* a file name is <<directory, stem, numeric suffix (0 = none), extension>>
MainDir == "main"
OriginalsDir == "originals"
TempDir == "tmp"
TrashDir == "trash"

FileAt(dir, p, idx) == <<dir, p.stem, idx, p.ext>>
MainFile(p) == FileAt(MainDir, p, 0)
TempFile(p) == FileAt(TempDir, p, 0)

\* file contents: <<"orig", stem>> an untouched source file, <<"enc", id>> the
\* complete encoder output of request id, <<"inj", id>> that output re-encoded
\* with metadata; <<"part", id>> (File::create in the encode step) and
\* <<"partinj", id>> (std::fs::write in the metadata step) a file created or
\* truncated by request id whose bytes are not all written yet
Exists(f, name) == name \in DOMAIN f
HasMeta(c) == c[1] = "inj" \/ (c[1] = "orig" /\ c[2] \in MetaStems)
Complete(c) == c[1] \notin {"part", "partinj"}

FsRemove(f, name) == [n \in DOMAIN f \ {name} |-> f[n]]
FsWrite(f, name, c) == (name :> c) @@ f
\* std::fs::rename: replaces the target when it exists
FsRename(f, from, to) == (to :> f[from]) @@ FsRemove(f, from)

RECURSIVE UniqueIdx(_, _, _, _)
UniqueIdx(f, dir, p, idx) ==
    IF Exists(f, FileAt(dir, p, idx)) THEN UniqueIdx(f, dir, p, idx + 1) ELSE idx

(* unique_destination: dir/name, else dir/stem-k.ext for the first free k *)
UniqueDestination(f, dir, p) == FileAt(dir, p, UniqueIdx(f, dir, p, 0))

(* move_with_unique_name, run by one thread without interleaving: it is    *)
(* Ok when the source exists, and the file system is then the renamed one  *)
MoveOk(f, p) == Exists(f, MainFile(p))
MoveWithUniqueName(f, p, dir) ==
    IF MoveOk(f, p)
    THEN FsRename(f, MainFile(p), UniqueDestination(f, dir, p))
    ELSE f

(* ------------------------------- state --------------------------------- *)
VARIABLES
    \* configuration
    concurrency, format, resave, dry_run,
    \* ImageCropperApp
    files, current_index, image, texture, selections, status,
    finished, is_exiting, exit_attempt_count, list_completed, windowed_mode_set,
    closed,
    \* Loader
    cache, history, loading_active, pending, path_tx, decoding, preload_rx,
    \* Saver
    pending_saves, save_rx, save_status, wk,
    \* disk
    fs,
    \* bookkeeping: next request id, log of queue_save calls, log of the
    \* statuses check_completions returned, commands given, faults injected
    next_id, queued, observed, cmds, faults,
    \* bookkeeping when an interface is driven call by call: the number of
    \* calls made and what the last one was
    calls, last

cfgvars == <<concurrency, format, resave, dry_run>>
appvars == <<files, current_index, image, texture, selections, status,
             finished, is_exiting, exit_attempt_count, list_completed,
             windowed_mode_set, closed>>
loadervars == <<cache, history, loading_active, pending, path_tx, decoding, preload_rx>>
savervars == <<pending_saves, save_rx, save_status, wk>>
logvars == <<next_id, queued, observed, cmds, faults>>
apivars == <<calls, last>>
vars == <<cfgvars, appvars, loadervars, savervars, fs, logvars, apivars>>

\* before holds op, hit and index of the call before the last
NoCall == [op |-> "none", path |-> NoPath, hit |-> FALSE, index |-> 0, image |-> NoPath,
           before |-> <<"none", FALSE, 0>>]

Workers == 1..concurrency

NoReq == [id |-> 0, path |-> NoPath, original_path |-> NoPath, format |-> None]

IdleWorker == [pc |-> "idle", req |-> NoReq, original_size |-> FALSE,
               idx |-> 0, backed_up |-> NoFile, has_meta |-> FALSE,
               temp_data |-> NoData, ok |-> TRUE, new_size |-> FALSE,
               steps |-> <<>>, moved |-> NoData]

(* the request channel is open while a worker thread holds the receiver:   *)
(* Saver::new(0) spawns none and drops it on return                        *)
ChannelOpen == concurrency > 0

(* ------------------------- saver worker thread -------------------------- *)
\* one action per file-system call of the per-request closure of
\* spawn_saver_thread; W(w) is the worker's local state

W(w) == wk[w]
Req(w) == wk[w].req
SetW(w, r) == wk' = [wk EXCEPT ![w] = r]
Goto(w, pc) == [wk[w] EXCEPT !.pc = pc]
\* steps and moved are bookkeeping: the steps of the job that changed the
\* disk so far, and the contents of the file the backup step moved
Did(w, step, pc) == [wk[w] EXCEPT !.pc = pc, !.steps = Append(@, step)]
\* a variant that notes the failure and lets the job go on
FailOn(w) == [wk[w] EXCEPT !.ok = FALSE]
Fail(w) == [wk[w] EXCEPT !.pc = "send", !.ok = FALSE]

\* bytes written through a file handle land in the file the handle created
Flush(f, from, to) == [n \in DOMAIN f |-> IF f[n] = from THEN to ELSE f[n]]

\* a variant that reads the request and leaves it on the channel
WRecvPeek(w) ==
    /\ W(w).pc = "idle"
    /\ \A v \in 1..(w - 1) : W(v).pc # "idle"
    /\ save_rx # <<>>
    /\ SetW(w, [IdleWorker EXCEPT !.pc = "stat", !.req = Head(save_rx)])
    /\ UNCHANGED <<fs, save_rx, save_status, pending_saves, faults>>
(* rx.lock(), lock.recv(); the threads are identical, so the idle one of   *)
(* least index is taken to be the one that gets the lock                   *)
WRecv(w) ==
    /\ W(w).pc = "idle"
    /\ \A v \in 1..(w - 1) : W(v).pc # "idle"
    /\ save_rx # <<>>
    /\ save_rx' = Tail(save_rx)
    /\ SetW(w, [IdleWorker EXCEPT !.pc = "stat", !.req = Head(save_rx)])
    /\ UNCHANGED <<fs, save_status, pending_saves, faults>>

(* std::fs::metadata(&req.original_path) *)
WStat(w) ==
    /\ W(w).pc = "stat"
    /\ SetW(w, [W(w) EXCEPT !.pc = "probe",
                            !.original_size = Exists(fs, MainFile(Req(w).original_path))])
    /\ UNCHANGED <<fs, save_rx, save_status, pending_saves, faults>>

(* backup_original -> move_with_unique_name -> unique_destination: one     *)
(* candidate.exists() test per step                                        *)
WProbe(w) ==
    /\ W(w).pc = "probe"
    /\ LET cand == FileAt(OriginalsDir, Req(w).original_path, W(w).idx)
       IN  IF Exists(fs, cand)
           THEN SetW(w, [W(w) EXCEPT !.idx = @ + 1])
           ELSE SetW(w, [W(w) EXCEPT !.pc = "rename", !.backed_up = cand])
    /\ UNCHANGED <<fs, save_rx, save_status, pending_saves, faults>>

(* move_with_unique_name: fs::rename(source, &destination) *)
BackupRename(f, w) == FsRename(f, MainFile(Req(w).original_path), W(w).backed_up)

WRename(w) ==
    /\ W(w).pc = "rename"
    /\ IF Exists(fs, MainFile(Req(w).original_path))
       THEN /\ fs' = BackupRename(fs, w)
            /\ SetW(w, [Did(w, "backup", "create")
                          EXCEPT !.moved = fs[MainFile(Req(w).original_path)]])
       ELSE /\ SetW(w, Fail(w))
            /\ UNCHANGED fs
    /\ UNCHANGED <<save_rx, save_status, pending_saves, faults>>

(* prepare_dir(parent, TEMP_DIR), File::create(&temp_path) *)
WCreate(w) ==
    /\ W(w).pc = "create"
    /\ fs' = FsWrite(fs, TempFile(Req(w).path), <<"part", Req(w).id>>)
    /\ SetW(w, Did(w, "temp", "encode"))
    /\ UNCHANGED <<save_rx, save_status, pending_saves, faults>>

(* req.image.write_with_encoder(encoder)?, then the file is closed *)
WEncode(w) ==
    /\ W(w).pc = "encode"
    /\ \/ /\ fs' = Flush(fs, <<"part", Req(w).id>>, <<"enc", Req(w).id>>)
          /\ SetW(w, Did(w, "encode", "read_in"))
          /\ UNCHANGED faults
       \/ /\ faults < MaxFaults
          /\ faults' = faults + 1
          /\ SetW(w, Fail(w))
          /\ UNCHANGED fs
    /\ UNCHANGED <<save_rx, save_status, pending_saves>>

(* copy_metadata: std::fs::read(&backed_up_path)?, metadata detection; the *)
(* read can fail                                                           *)
WReadIn(w) ==
    /\ W(w).pc = "read_in"
    /\ \/ /\ IF Exists(fs, W(w).backed_up)
             THEN SetW(w, [W(w) EXCEPT !.pc = "read_tmp",
                                       !.has_meta = HasMeta(fs[W(w).backed_up])])
             ELSE SetW(w, Goto(w, "fb_check"))
          /\ UNCHANGED faults
       \/ /\ faults < MaxFaults
          /\ faults' = faults + 1
          /\ SetW(w, Goto(w, "fb_check"))
    /\ UNCHANGED <<fs, save_rx, save_status, pending_saves>>

(* the container is rewritten when the original carried metadata, the      *)
(* format is not Avif and the temp file parses (output_bytes is Some)      *)
Injects(w, data) == W(w).has_meta /\ Req(w).format # "avif" /\ Complete(data)

(* copy_metadata: std::fs::read(&temp_path)? and the choice of the branch *)
WReadTmp(w) ==
    /\ W(w).pc = "read_tmp"
    /\ LET temp == TempFile(Req(w).path)
       IN  IF Exists(fs, temp)
           THEN SetW(w, [W(w) EXCEPT !.temp_data = fs[temp],
                                     !.pc = IF Injects(w, fs[temp]) THEN "wr_open" ELSE "publish"])
           ELSE SetW(w, Goto(w, "fb_check"))
    /\ UNCHANGED <<fs, save_rx, save_status, pending_saves, faults>>

(* copy_metadata: std::fs::rename(&temp_path, &req.path)? *)
WPublish(w) ==
    /\ W(w).pc = "publish"
    /\ LET temp == TempFile(Req(w).path)
       IN  IF Exists(fs, temp)
           THEN /\ fs' = FsRename(fs, temp, MainFile(Req(w).path))
                /\ SetW(w, Did(w, "publish", "new_size"))
           ELSE /\ SetW(w, Goto(w, "fb_check"))
                /\ UNCHANGED fs
    /\ UNCHANGED <<save_rx, save_status, pending_saves, faults>>

(* copy_metadata: std::fs::write(&req.path, bytes) creates or truncates    *)
(* the destination ...                                                     *)
PublishOpen(f, w) == FsWrite(f, MainFile(Req(w).path), <<"partinj", Req(w).id>>)

WWriteOpen(w) ==
    /\ W(w).pc = "wr_open"
    /\ fs' = PublishOpen(fs, w)
    /\ SetW(w, Did(w, "publish", "wr_data"))
    /\ UNCHANGED <<save_rx, save_status, pending_saves, faults>>

(* ... and then writes the bytes into it *)
WWriteData(w) ==
    /\ W(w).pc = "wr_data"
    /\ fs' = Flush(fs, <<"partinj", Req(w).id>>, <<"inj", Req(w).id>>)
    /\ SetW(w, Goto(w, "rm_tmp"))
    /\ UNCHANGED <<save_rx, save_status, pending_saves, faults>>

(* copy_metadata: std::fs::remove_file(&temp_path)? *)
WRemoveTmp(w) ==
    /\ W(w).pc = "rm_tmp"
    /\ LET temp == TempFile(Req(w).path)
       IN  IF Exists(fs, temp)
           THEN /\ fs' = FsRemove(fs, temp)
                /\ SetW(w, Goto(w, "new_size"))
           ELSE /\ SetW(w, Goto(w, "fb_check"))
                /\ UNCHANGED fs
    /\ UNCHANGED <<save_rx, save_status, pending_saves, faults>>

(* fallback after a copy_metadata error: if temp_path.exists() *)
WFallbackCheck(w) ==
    /\ W(w).pc = "fb_check"
    /\ SetW(w, Goto(w, IF Exists(fs, TempFile(Req(w).path)) THEN "fb_rename" ELSE "new_size"))
    /\ UNCHANGED <<fs, save_rx, save_status, pending_saves, faults>>

(* fallback: std::fs::rename(&temp_path, &req.path)? *)
WFallbackRename(w) ==
    /\ W(w).pc = "fb_rename"
    /\ LET temp == TempFile(Req(w).path)
       IN  IF Exists(fs, temp)
           THEN /\ fs' = FsRename(fs, temp, MainFile(Req(w).path))
                /\ SetW(w, Did(w, "publish", "new_size"))
           ELSE /\ SetW(w, Fail(w))
                /\ UNCHANGED fs
    /\ UNCHANGED <<save_rx, save_status, pending_saves, faults>>

(* std::fs::metadata(&req.path) *)
WNewSize(w) ==
    /\ W(w).pc = "new_size"
    /\ SetW(w, [W(w) EXCEPT !.pc = "send", !.new_size = Exists(fs, MainFile(Req(w).path))])
    /\ UNCHANGED <<fs, save_rx, save_status, pending_saves, faults>>

(* the SaveStatus a worker reports *)
StatusOf(w) == [id |-> Req(w).id, path |-> Req(w).path, ok |-> W(w).ok,
                original_size |-> W(w).original_size, new_size |-> W(w).new_size,
                steps |-> W(w).steps, backed_up |-> W(w).backed_up,
                moved |-> W(w).moved]

(* tx.send(SaveStatus { .. }), back to the top of the loop *)
WSend(w) ==
    /\ W(w).pc = "send"
    /\ save_status' = Append(save_status, StatusOf(w))
    /\ SetW(w, IdleWorker)
    /\ UNCHANGED <<fs, save_rx, pending_saves, faults>>

SaverStep(w) ==
    \/ WRecv(w) \/ WStat(w) \/ WProbe(w) \/ WRename(w) \/ WCreate(w) \/ WEncode(w)
    \/ WReadIn(w) \/ WReadTmp(w) \/ WPublish(w) \/ WWriteOpen(w) \/ WWriteData(w)
    \/ WRemoveTmp(w) \/ WFallbackCheck(w) \/ WFallbackRename(w) \/ WNewSize(w)
    \/ WSend(w)

SaverThread(w) ==
    /\ w \in Workers
    /\ ~closed
    /\ SaverStep(w)
    /\ UNCHANGED <<cfgvars, appvars, loadervars, next_id, queued, observed, cmds, apivars>>

(* ------------------- controller thread: state record -------------------- *)
\* the handlers of the controller thread run to completion one after the
\* other inside update(); they are written as functions on the record of
\* everything that thread can touch, and Update commits the final record

Cur == [files |-> files, current_index |-> current_index, image |-> image,
        texture |-> texture, selections |-> selections, status |-> status,
        finished |-> finished, is_exiting |-> is_exiting,
        exit_attempt_count |-> exit_attempt_count,
        list_completed |-> list_completed,
        windowed_mode_set |-> windowed_mode_set, closed |-> closed,
        cache |-> cache, history |-> history, loading_active |-> loading_active,
        pending |-> pending, path_tx |-> path_tx, preload_rx |-> preload_rx,
        pending_saves |-> pending_saves, save_rx |-> save_rx,
        save_status |-> save_status, fs |-> fs,
        next_id |-> next_id, queued |-> queued, observed |-> observed,
        ret |-> FALSE]

Commit(s) ==
    /\ files' = s.files /\ current_index' = s.current_index /\ image' = s.image
    /\ texture' = s.texture /\ selections' = s.selections /\ status' = s.status
    /\ finished' = s.finished /\ is_exiting' = s.is_exiting
    /\ exit_attempt_count' = s.exit_attempt_count
    /\ list_completed' = s.list_completed
    /\ windowed_mode_set' = s.windowed_mode_set /\ closed' = s.closed
    /\ cache' = s.cache /\ history' = s.history /\ loading_active' = s.loading_active
    /\ pending' = s.pending /\ path_tx' = s.path_tx /\ preload_rx' = s.preload_rx
    /\ decoding' = decoding
    /\ pending_saves' = s.pending_saves /\ save_rx' = s.save_rx
    /\ save_status' = s.save_status /\ fs' = s.fs
    /\ next_id' = s.next_id /\ queued' = s.queued /\ observed' = s.observed

Return(s) == [s EXCEPT !.ret = TRUE]

(* ------------------------------- Loader --------------------------------- *)
\* a variant that sends the path whatever is cached or pending
LoadImageAlways(s, path) ==
    [s EXCEPT !.pending = @ \cup {path}, !.path_tx = Append(@, path)]
(* Loader::load_image *)
LoadImage(s, path) ==
    IF path \in s.cache \/ path \in s.pending
    THEN s
    ELSE [s EXCEPT !.pending = @ \cup {path}, !.path_tx = Append(@, path)]

\* a variant that takes the results off the channel and drops them
LoaderUpdateDrop(s) ==
    [s EXCEPT !.pending = @ \ {s.preload_rx[i] : i \in 1..Len(s.preload_rx)},
              !.preload_rx = <<>>]
(* Loader::update *)
LoaderUpdate(s) ==
    LET got == {s.preload_rx[i] : i \in 1..Len(s.preload_rx)}
    IN  [s EXCEPT !.pending = @ \ got,
                  !.cache = @ \cup got,
                  !.preload_rx = <<>>]

\* a variant that leaves the record in the cache
GetFromCacheKeep(s, path) == s
(* Loader::get_from_cache: self.cache.remove(path) *)
GetFromCache(s, path) == [s EXCEPT !.cache = @ \ {path}]

\* a variant that drops the newest record when the history is full
PushHistoryNewest(h, entry) ==
    Append(IF Len(h) >= HistoryCap THEN SubSeq(h, 1, Len(h) - 1) ELSE h, entry)
(* Loader::push_history *)
PushHistory(h, entry) ==
    Append(IF Len(h) >= HistoryCap THEN Tail(h) ELSE h, entry)

(* Loader::pop_history: the history without its back entry *)
PopHistory(h) == SubSeq(h, 1, Len(h) - 1)

(* -------------------------------- Saver --------------------------------- *)
RECURSIVE RemoveFirst(_, _)
(* pending_saves.iter().position(..) and pending_saves.remove(idx) *)
RemoveFirst(seq, x) ==
    IF seq = <<>> THEN <<>>
    ELSE IF Head(seq) = x THEN Tail(seq)
    ELSE <<Head(seq)>> \o RemoveFirst(Tail(seq), x)

InSeq(seq, x) == \E i \in 1..Len(seq) : seq[i] = x

\* a variant that forgets to record the destination
QueuePendingNone(ps, path) == ps
(* Saver::queue_save: the push onto pending_saves *)
QueuePending(ps, path) == Append(ps, path)

(* Saver::queue_save; the result is Ok exactly when ChannelOpen *)
QueueSave(s, path, original_path) ==
    LET req == [id |-> s.next_id, path |-> path, original_path |-> original_path,
                format |-> format]
    IN  [s EXCEPT !.pending_saves = QueuePending(@, path),
                  !.save_rx = IF ChannelOpen THEN Append(@, req) ELSE @,
                  !.next_id = @ + 1,
                  !.queued = Append(@, [id |-> s.next_id, path |-> path,
                                        original_path |-> original_path,
                                        accepted |-> ChannelOpen])]

RECURSIVE DrainPending(_, _)
DrainPending(ps, statuses) ==
    IF statuses = <<>> THEN ps
    ELSE DrainPending(RemoveFirst(ps, Head(statuses).path), Tail(statuses))

\* a variant that treats a failed save as the end of the list
CheckCompletionsHalt(s) ==
    [s EXCEPT !.pending_saves = DrainPending(@, s.save_status),
              !.observed = @ \o s.save_status,
              !.save_status = <<>>,
              !.status = IF \E i \in 1..Len(s.save_status) : ~s.save_status[i].ok
                         THEN "Error saving" ELSE @,
              !.list_completed = @ \/ \E i \in 1..Len(s.save_status) : ~s.save_status[i].ok]
(* Saver::check_completions followed by the loop of update() over its      *)
(* result: every status on the channel is taken, its path leaves           *)
(* pending_saves, a failure becomes the status text                        *)
CheckCompletions(s) ==
    [s EXCEPT !.pending_saves = DrainPending(@, s.save_status),
              !.observed = @ \o s.save_status,
              !.save_status = <<>>,
              !.status = IF \E i \in 1..Len(s.save_status) : ~s.save_status[i].ok
                         THEN "Error saving" ELSE @]

(* ---------------------------- ImageCropperApp --------------------------- *)
HasCurrent(s) == s.current_index < Len(s.files)
(* current_path; current_index counts from 0 *)
CurrentPath(s) == s.files[s.current_index + 1]

(* the load request for a path that is not cached; the call is made by the *)
(* controller for the path it is waiting for                               *)
IssueLoad(s, path) == LoadImage(s, path)

(* load_current_image: Err("No images remaining") without a current path *)
LoadCurrentImage(s) ==
    LET u == LoaderUpdate(s)
    IN  IF ~HasCurrent(u) THEN u
        ELSE IF CurrentPath(u) \in u.cache
        THEN [u EXCEPT !.cache = @ \ {CurrentPath(u)},
                       !.image = CurrentPath(u),
                       !.texture = TRUE,
                       !.selections = <<>>,
                       !.status = "Loaded",
                       !.loading_active = FALSE]
        ELSE IssueLoad([u EXCEPT !.image = NoPath,
                                 !.texture = FALSE,
                                 !.status = "Loading",
                                 !.loading_active = TRUE], CurrentPath(u))

(* if let Err(err) = self.load_current_image(ctx) { self.status = .. } *)
LoadOrStatus(s) ==
    IF HasCurrent(s) THEN LoadCurrentImage(s)
    ELSE [LoadCurrentImage(s) EXCEPT !.status = "No images remaining"]

(* request_shutdown *)
RequestShutdown(s) ==
    [s EXCEPT !.finished = TRUE,
              !.closed = @ \/ s.pending_saves = <<>>]

\* a variant that compares the extension as it is spelled
ResaveExact(s) ==
    IF /\ resave
       /\ HasCurrent(s)
       /\ CurrentPath(s).ext # Extension(format)
       /\ s.image # NoPath
    THEN LET out == WithExtension(CurrentPath(s), Extension(format))
             q == QueueSave(s, out, CurrentPath(s))
         IN  IF ChannelOpen
             THEN [q EXCEPT !.files[s.current_index + 1] = out, !.status = "Converting"]
             ELSE q
    ELSE s
(* advance: the auto-convert of the image being left *)
Resave(s) ==
    IF /\ resave
       /\ HasCurrent(s)
       /\ to_ascii_lowercase(CurrentPath(s).ext) # Extension(format)
       /\ s.image # NoPath
    THEN LET out == WithExtension(CurrentPath(s), Extension(format))
             q == QueueSave(s, out, CurrentPath(s))
         IN  IF ChannelOpen
             THEN [q EXCEPT !.files[s.current_index + 1] = out, !.status = "Converting"]
             ELSE q
    ELSE s

(* advance: "Cache current image before moving" *)
\* a variant that pushes nothing onto the History
KeepCurrentNone(s) == s
(* advance: "Cache current image before moving" *)
KeepCurrent(s) ==
    IF HasCurrent(s) /\ s.image # NoPath /\ s.texture
    THEN [s EXCEPT !.history = PushHistory(@, [path |-> CurrentPath(s), image |-> s.image])]
    ELSE s

\* a variant that goes round to the first entry after the last
AdvanceWrap(s) ==
    IF s.files = <<>> THEN RequestShutdown(s)
    ELSE LET k == KeepCurrent(Resave(s))
         IN  LoadOrStatus([k EXCEPT !.current_index = (@ + 1) % Len(k.files)])
(* advance *)
Advance(s) ==
    IF s.files = <<>> THEN RequestShutdown(s)
    ELSE LET k == KeepCurrent(Resave(s))
         IN  IF k.current_index + 1 >= Len(k.files)
             THEN [k EXCEPT !.list_completed = TRUE, !.status = "All images processed"]
             ELSE LoadOrStatus([k EXCEPT !.current_index = @ + 1])

PrevIndex(s) == IF s.current_index = 0 THEN Len(s.files) - 1 ELSE s.current_index - 1

\* a variant that adopts the popped record without comparing its path
GoBackAdopt(s) ==
    IF s.files = <<>> \/ s.history = <<>> THEN s
    ELSE [s EXCEPT !.history = PopHistory(@),
                   !.current_index = PrevIndex(s),
                   !.selections = <<>>,
                   !.texture = TRUE,
                   !.image = s.history[Len(s.history)].image,
                   !.status = "Loaded"]
(* go_back *)
GoBack(s) ==
    IF s.files = <<>> THEN s
    ELSE LET popped == IF s.history = <<>> THEN s
                       ELSE [s EXCEPT !.history = PopHistory(@)]
         IN  IF s.history # <<>> /\ s.history[Len(s.history)].path = s.files[PrevIndex(s) + 1]
             THEN [popped EXCEPT !.current_index = PrevIndex(s),
                                 !.selections = <<>>,
                                 !.texture = TRUE,
                                 !.image = s.history[Len(s.history)].image,
                                 !.status = "Loaded"]
             ELSE LoadOrStatus([popped EXCEPT !.current_index = PrevIndex(s)])

\* a variant that drops the entry from the file list although the move failed
DeleteCurrentDrop(s) ==
    IF ~HasCurrent(s) THEN [s EXCEPT !.status = "No image selected"]
    ELSE IF dry_run THEN Advance([s EXCEPT !.status = "Dry run: skipped deleting"])
    ELSE LET moved == MoveWithUniqueName(s.fs, CurrentPath(s), TrashDir)
             d == [s EXCEPT !.fs = moved,
                            !.status = IF MoveOk(s.fs, CurrentPath(s))
                                       THEN "Moved" ELSE "Failed to delete",
                            !.selections = <<>>,
                            !.cache = @ \ {CurrentPath(s)},
                            !.files = SubSeq(@, 1, s.current_index)
                                      \o SubSeq(@, s.current_index + 2, Len(@))]
         IN  IF d.files = <<>>
             THEN [d EXCEPT !.list_completed = TRUE, !.status = "No images remaining"]
             ELSE IF d.current_index >= Len(d.files)
             THEN [d EXCEPT !.list_completed = TRUE, !.status = "All images processed"]
             ELSE IF MoveOk(s.fs, CurrentPath(s)) THEN LoadOrStatus(d) ELSE d
\* a variant that moves the file and leaves its entry in the file list
DeleteCurrentKeep(s) ==
    IF ~HasCurrent(s) THEN [s EXCEPT !.status = "No image selected"]
    ELSE IF dry_run THEN Advance([s EXCEPT !.status = "Dry run: skipped deleting"])
    ELSE IF ~MoveOk(s.fs, CurrentPath(s)) THEN [s EXCEPT !.status = "Failed to delete"]
    ELSE LoadOrStatus([s EXCEPT !.fs = MoveWithUniqueName(s.fs, CurrentPath(s), TrashDir),
                                !.status = "Moved",
                                !.selections = <<>>,
                                !.cache = @ \ {CurrentPath(s)}])
(* delete_current *)
DeleteCurrent(s) ==
    IF ~HasCurrent(s) THEN [s EXCEPT !.status = "No image selected"]
    ELSE IF dry_run THEN Advance([s EXCEPT !.status = "Dry run: skipped deleting"])
    ELSE LET moved == MoveWithUniqueName(s.fs, CurrentPath(s), TrashDir)
         IN  IF ~MoveOk(s.fs, CurrentPath(s)) THEN [s EXCEPT !.status = "Failed to delete"]
             ELSE LET d == [s EXCEPT !.fs = moved,
                                     !.status = "Moved",
                                     !.selections = <<>>,
                                     !.cache = @ \ {CurrentPath(s)},
                                     !.files = SubSeq(@, 1, s.current_index)
                                               \o SubSeq(@, s.current_index + 2, Len(@))]
                  IN  IF d.files = <<>>
                      THEN [d EXCEPT !.list_completed = TRUE, !.status = "No images remaining"]
                      ELSE IF d.current_index >= Len(d.files)
                      THEN [d EXCEPT !.list_completed = TRUE, !.status = "All images processed"]
                      ELSE LoadOrStatus(d)

\* a variant that queues the crop and leaves the file-list slot as it was
CropSelectionsNoRewrite(s) ==
    IF s.selections = <<>> THEN [s EXCEPT !.status = "No selection to crop", !.ret = FALSE]
    ELSE IF s.image = NoPath THEN [s EXCEPT !.status = "Image not loaded", !.ret = FALSE]
    ELSE IF ~HasCurrent(s) THEN [s EXCEPT !.status = "No image selected", !.ret = FALSE]
    ELSE IF ~InSeq(s.selections, "ok")
    THEN [s EXCEPT !.status = "Selections too small", !.ret = FALSE]
    ELSE LET q == QueueSave(s, WithExtension(CurrentPath(s), Extension(format)), CurrentPath(s))
         IN  IF ~ChannelOpen
             THEN [q EXCEPT !.status = "Failed to queue save", !.ret = FALSE]
             ELSE [Advance(q) EXCEPT !.status = "Saving in background", !.ret = TRUE]
(* crop_selections; ret is the returned bool *)
CropSelections(s) ==
    IF s.selections = <<>> THEN [s EXCEPT !.status = "No selection to crop", !.ret = FALSE]
    ELSE IF s.image = NoPath THEN [s EXCEPT !.status = "Image not loaded", !.ret = FALSE]
    ELSE IF ~HasCurrent(s) THEN [s EXCEPT !.status = "No image selected", !.ret = FALSE]
    ELSE IF ~InSeq(s.selections, "ok")
    THEN [s EXCEPT !.status = "Selections too small", !.ret = FALSE]
    ELSE LET out == WithExtension(CurrentPath(s), Extension(format))
             q == QueueSave(s, out, CurrentPath(s))
         IN  IF ~ChannelOpen
             THEN [q EXCEPT !.status = "Failed to queue save", !.ret = FALSE]
             ELSE [Advance([q EXCEPT !.files[s.current_index + 1] = out])
                     EXCEPT !.status = "Saving in background", !.ret = TRUE]

(* ------------------------------- update() ------------------------------- *)
\* a variant that closes whatever is pending
ExitingBranchNow(s) == [s EXCEPT !.closed = TRUE]
(* update: the branch taken while is_exiting *)
ExitingBranch(s) ==
    IF s.pending_saves = <<>>
    THEN [s EXCEPT !.closed = TRUE]
    ELSE [s EXCEPT !.windowed_mode_set = TRUE]

\* a variant without the check that ends a deferred exit
PollNoDeferred(s) ==
    LET a == CheckCompletions(LoaderUpdate(s))
        b == IF a.image = NoPath /\ HasCurrent(a) /\ CurrentPath(a) \in a.cache
             THEN LoadCurrentImage(a) ELSE a
        c == IF b.finished THEN [b EXCEPT !.is_exiting = TRUE] ELSE b
    IN  IF c.is_exiting THEN Return(ExitingBranch(c)) ELSE c
\* a variant that goes on to read the keys while it waits for the saves
PollThrough(s) ==
    LET a == CheckCompletions(LoaderUpdate(s))
        b == IF a.image = NoPath /\ HasCurrent(a) /\ CurrentPath(a) \in a.cache
             THEN LoadCurrentImage(a) ELSE a
        c == IF b.finished THEN [b EXCEPT !.is_exiting = TRUE] ELSE b
    IN  IF a.exit_attempt_count > 0 /\ a.pending_saves = <<>>
        THEN Return(RequestShutdown(a))
        ELSE IF c.is_exiting /\ c.pending_saves = <<>> THEN Return(ExitingBranch(c))
        ELSE c
(* update, from its start to the end of the is_exiting branch; ret tells   *)
(* that update returned                                                    *)
Poll(s) ==
    LET a == CheckCompletions(LoaderUpdate(s))
        b == IF a.image = NoPath /\ HasCurrent(a) /\ CurrentPath(a) \in a.cache
             THEN LoadCurrentImage(a) ELSE a
        c == IF b.finished THEN [b EXCEPT !.is_exiting = TRUE] ELSE b
    IN  IF a.exit_attempt_count > 0 /\ a.pending_saves = <<>>
        THEN Return(RequestShutdown(a))
        ELSE IF c.is_exiting THEN Return(ExitingBranch(c))
        ELSE c

\* a variant whose Start Over forgets the History
CompletedScreenFresh(s, button) ==
    IF button = "start_over"
    THEN LoadOrStatus([s EXCEPT !.list_completed = FALSE, !.current_index = 0,
                                !.history = <<>>])
    ELSE IF button = "quit" THEN [s EXCEPT !.finished = TRUE]
    ELSE s
(* update: the "All images processed!" screen with its two buttons *)
CompletedScreen(s, button) ==
    IF button = "start_over"
    THEN LoadOrStatus([s EXCEPT !.list_completed = FALSE, !.current_index = 0])
    ELSE IF button = "quit" THEN [s EXCEPT !.finished = TRUE]
    ELSE s

(* 3usize.saturating_sub(self.exit_attempt_count) *)
Remaining(count) == IF count >= ExitThreshold THEN 0 ELSE ExitThreshold - count

(* update: if keys.escape *)
KeyEscape(s) ==
    IF s.selections # <<>>
    THEN [s EXCEPT !.selections = <<>>, !.status = "Selection cleared",
                   !.exit_attempt_count = 0]
    ELSE IF s.pending_saves = <<>> THEN Return(RequestShutdown(s))
    ELSE LET n == [s EXCEPT !.exit_attempt_count = @ + 1]
         IN  IF Remaining(n.exit_attempt_count) = 0
             THEN Return(RequestShutdown(n))
             ELSE [n EXCEPT !.status = "Saving in progress"]

(* update: if keys.save_selection *)
KeyEnter(s) ==
    LET c == CropSelections([s EXCEPT !.exit_attempt_count = 0])
    IN  IF c.ret THEN [c EXCEPT !.selections = <<>>, !.ret = FALSE]
        ELSE c

\* a variant that leaves the count of escapes as it is
KeySpaceKeep(s) == Advance(s)
(* update: if keys.next_image *)
KeySpace(s) == Advance([s EXCEPT !.exit_attempt_count = 0])

(* update: if keys.prev_image *)
KeyBackspace(s) == GoBack([s EXCEPT !.exit_attempt_count = 0])

(* update: if keys.delete *)
KeyDelete(s) == DeleteCurrent([s EXCEPT !.exit_attempt_count = 0])

(* Canvas::handle_pointer, reached only while a texture is shown: a drag   *)
(* without ctrl replaces the selections by the new rectangle               *)
HandlePointer(s, draw) ==
    IF s.texture /\ draw # None THEN [s EXCEPT !.selections = <<draw>>] ELSE s

(* update: the keyboard and pointer part of an ordinary frame *)
Frame(s, keys, draw) ==
    LET e == IF "escape" \in keys THEN KeyEscape(s) ELSE s
        c == IF "enter" \in keys THEN KeyEnter(e) ELSE e
        n == IF "space" \in keys THEN KeySpace(c) ELSE c
        b == IF "backspace" \in keys THEN KeyBackspace(n) ELSE n
        d == IF "delete" \in keys THEN KeyDelete(b) ELSE b
    IN  IF e.ret THEN e ELSE HandlePointer(d, draw)

(* one call of update(): keys, button and draw are the operator's input of *)
(* this frame; input is only offered where the frame reads it              *)
UpdateResult(s, keys, button, draw) ==
    LET p == Poll(s)
    IN  IF p.ret THEN p
        ELSE IF p.list_completed THEN CompletedScreen(p, button)
        ELSE Frame(p, keys, draw)

Cost(keys, button) == Cardinality(keys \ {"escape"}) + (IF button = None THEN 0 ELSE 1)

(* eframe calls update() once per frame until the window is closed *)
UpdateCall(keys, button, draw) ==
    /\ ~closed
    /\ LET p == Poll(Cur)
       IN  /\ p.ret => keys = {} /\ button = None /\ draw = None
           /\ (~p.ret /\ p.list_completed) => keys = {} /\ draw = None
           /\ (~p.ret /\ ~p.list_completed) => button = None
    /\ Commit(UpdateResult(Cur, keys, button, draw))
    /\ UNCHANGED <<cfgvars, wk, faults>>

Update(keys, button, draw) ==
    /\ cmds + Cost(keys, button) <= MaxCmds
    /\ cmds' = cmds + Cost(keys, button)
    /\ UpdateCall(keys, button, draw)
    /\ UNCHANGED apivars

(* --------------------------- loader worker threads ---------------------- *)
RemoveAt(seq, i) == SubSeq(seq, 1, i - 1) \o SubSeq(seq, i + 1, Len(seq))

(* one of the 16 preloader threads takes a path from path_rx and reads and *)
(* decodes the file: std::fs::read(&path), decode; a missing or incomplete *)
(* file is logged and dropped. path_tx holds the paths sent and not yet    *)
(* read, decoding the paths of the records a thread has decoded and not    *)
(* yet sent; the threads work on them in any order                         *)
LoaderDecode(i) ==
    /\ ~closed
    /\ i \in 1..Len(path_tx)
    /\ path_tx' = RemoveAt(path_tx, i)
    /\ decoding' = IF Exists(fs, MainFile(path_tx[i])) /\ Complete(fs[MainFile(path_tx[i])])
                   THEN Append(decoding, path_tx[i]) ELSE decoding
    /\ UNCHANGED <<cfgvars, appvars, cache, history, loading_active, pending, preload_rx,
                   savervars, fs, logvars, apivars>>

(* the thread hands the record over: preload_tx.send(PreloadedImage {..}) *)
LoaderSend(j) ==
    /\ ~closed
    /\ j \in 1..Len(decoding)
    /\ decoding' = RemoveAt(decoding, j)
    /\ preload_rx' = Append(preload_rx, decoding[j])
    /\ UNCHANGED <<cfgvars, appvars, cache, history, loading_active, pending, path_tx,
                   savervars, fs, logvars, apivars>>

(* ------------------------------ specification --------------------------- *)
\* the scanned directory holding the files of list, nothing else
FsOf(list) == [n \in {MainFile(list[i]) : i \in 1..Len(list)} |-> <<"orig", n[2]>>]
InitialFs == FsOf(SourceFiles)

(* ImageCropperApp::new, Loader::new, Saver::new, then load_current_image  *)
InitOf(list) ==
    /\ concurrency \in 0..MaxWorkers
    /\ \E c \in Configs : format = c.format /\ resave = c.resave /\ dry_run = c.dry_run
    /\ files = list
    /\ current_index = 0
    /\ image = NoPath
    /\ texture = FALSE
    /\ selections = <<>>
    /\ status = "Loading"
    /\ finished = FALSE
    /\ is_exiting = FALSE
    /\ exit_attempt_count = 0
    /\ list_completed = FALSE
    /\ windowed_mode_set = FALSE
    /\ closed = FALSE
    /\ cache = {}
    /\ history = <<>>
    /\ loading_active = TRUE
    /\ pending = {list[1]}
    /\ path_tx = <<list[1]>>
    /\ decoding = <<>>
    /\ preload_rx = <<>>
    /\ pending_saves = <<>>
    /\ save_rx = <<>>
    /\ save_status = <<>>
    /\ wk = [w \in 1..concurrency |-> IdleWorker]
    /\ fs = FsOf(list)
    /\ next_id = 1
    /\ queued = <<>>
    /\ observed = <<>>
    /\ cmds = 0
    /\ faults = 0
    /\ calls = 0
    /\ last = NoCall

Init == InitOf(SourceFiles)

\* what the operator does during one frame: nothing, one key, one button
\* or one drag of the pointer
Inputs ==
    {<<{}, None, None>>}
    \cup {<<{k}, None, None>> : k \in Keys}
    \cup {<<{}, b, None>> : b \in Buttons}
    \cup {<<{}, None, d>> : d \in Shapes}

Tick == \E in \in Inputs : Update(in[1], in[2], in[3])

Next ==
    \/ Tick
    \/ \E i \in 1..Len(path_tx) : LoaderDecode(i)
    \/ \E j \in 1..Len(decoding) : LoaderSend(j)
    \/ \E w \in Workers : SaverThread(w)

Spec == Init /\ [][Next]_vars

(* ------------------------- navigation on its own ----------------------- *)
\* the operator only navigates: next, previous, delete and the two buttons
\* of the completed screen; more commands fit in a run than in Spec

NavInputs ==
    {<<{}, None, None>>}
    \cup {<<{k}, None, None>> : k \in {"space", "backspace", "delete"}}
    \cup {<<{}, b, None>> : b \in Buttons}

\* the command of a frame, with the cursor and the current record as the
\* handler finds them (after the polling at the start of update); hit
\* tells that the current image was loaded, path is the path of the newest
\* History record
Command(keys, button) ==
    LET p == Poll(Cur)
    IN  [NoCall EXCEPT !.op = IF button # None THEN button
                              ELSE CHOOSE k \in keys : TRUE,
                       !.hit = (p.image # NoPath /\ p.texture),
                       !.path = IF p.history = <<>> THEN NoPath
                                ELSE p.history[Len(p.history)].path,
                       !.index = p.current_index,
                       !.image = p.image,
                       !.before = <<last.op, last.hit, last.index>>]

NavTick ==
    \E in \in NavInputs :
        /\ calls + Cost(in[1], in[2]) <= MaxNav
        /\ calls' = calls + Cost(in[1], in[2])
        /\ last' = IF Cost(in[1], in[2]) = 0 THEN last ELSE Command(in[1], in[2])
        /\ UpdateCall(in[1], in[2], in[3])
        /\ UNCHANGED cmds

NavInit == Init /\ concurrency = 1

NavNext ==
    \/ NavTick
    \/ \E i \in 1..Len(path_tx) : LoaderDecode(i)
    \/ \E j \in 1..Len(decoding) : LoaderSend(j)
    \/ \E w \in Workers : SaverThread(w)

NavSpec == NavInit /\ [][NavNext]_vars

(* --------------------------- cropping on its own ------------------------ *)
\* the operator draws rectangles, crops and moves between the images; the
\* command of a frame is logged as in NavSpec

CropInputs ==
    {<<{}, None, None>>}
    \cup {<<{k}, None, None>> : k \in {"enter", "space", "backspace"}}
    \cup {<<{}, None, d>> : d \in Shapes}

CropTick ==
    \E in \in CropInputs :
        /\ calls + Cost(in[1], in[2]) <= MaxCrop
        /\ calls' = calls + Cost(in[1], in[2])
        /\ last' = IF Cost(in[1], in[2]) = 0 THEN last ELSE Command(in[1], in[2])
        /\ UpdateCall(in[1], in[2], in[3])
        /\ UNCHANGED cmds

CropInit == Init /\ concurrency \in {0, 1}

CropNext ==
    \/ CropTick
    \/ \E i \in 1..Len(path_tx) : LoaderDecode(i)
    \/ \E j \in 1..Len(decoding) : LoaderSend(j)
    \/ \E w \in Workers : SaverThread(w)

CropSpec == CropInit /\ [][CropNext]_vars

(* ------------------- two files that differ in the extension ------------ *)
\* the directory holds the same picture twice, as a.jpg and as a.png, and
\* the output format is png: a crop of a.jpg is written to a.png

TwinFiles == << [stem |-> "a", ext |-> "jpg"], [stem |-> "a", ext |-> "png"] >>

TwinInit == InitOf(TwinFiles) /\ concurrency = 1 /\ format = "png" /\ ~dry_run

TwinNext ==
    \/ CropTick
    \/ \E i \in 1..Len(path_tx) : LoaderDecode(i)
    \/ \E j \in 1..Len(decoding) : LoaderSend(j)
    \/ \E w \in Workers : SaverThread(w)

TwinSpec == TwinInit /\ [][TwinNext]_vars

(* ----------------------- shutting down on its own ----------------------- *)
\* the operator gives every command, escape included; each one is counted
\* and logged as in NavSpec

MaxExit == 4

ExitInputs ==
    {<<{}, None, None>>}
    \cup {<<{k}, None, None>> : k \in Keys}
    \cup {<<{}, b, None>> : b \in Buttons}
    \cup {<<{}, None, d>> : d \in Shapes}

ExitCost(keys, button) == Cardinality(keys) + (IF button = None THEN 0 ELSE 1)

ExitTick ==
    \E in \in ExitInputs :
        /\ calls + ExitCost(in[1], in[2]) <= MaxExit
        /\ calls' = calls + ExitCost(in[1], in[2])
        /\ last' = IF ExitCost(in[1], in[2]) = 0 THEN last ELSE Command(in[1], in[2])
        /\ UpdateCall(in[1], in[2], in[3])
        /\ UNCHANGED cmds

ExitInit == Init /\ concurrency = 1 /\ ~dry_run

ExitNext ==
    \/ ExitTick
    \/ \E i \in 1..Len(path_tx) : LoaderDecode(i)
    \/ \E j \in 1..Len(decoding) : LoaderSend(j)
    \/ \E w \in Workers : SaverThread(w)

ExitSpec == ExitInit /\ [][ExitNext]_vars

(* ------------------------- advancing on its own ------------------------ *)
\* the operator only moves forward and back through a directory whose first
\* file has its extension in capitals

AdvanceInputs ==
    {<<{}, None, None>>}
    \cup {<<{k}, None, None>> : k \in {"space", "backspace"}}

AdvanceTick ==
    \E in \in AdvanceInputs :
        /\ calls + Cost(in[1], in[2]) <= MaxAdvance
        /\ calls' = calls + Cost(in[1], in[2])
        /\ last' = IF Cost(in[1], in[2]) = 0 THEN last ELSE Command(in[1], in[2])
        /\ UpdateCall(in[1], in[2], in[3])
        /\ UNCHANGED cmds

AdvanceInit == InitOf(CapitalFiles) /\ concurrency \in {0, 1}

AdvanceNext ==
    \/ AdvanceTick
    \/ \E i \in 1..Len(path_tx) : LoaderDecode(i)
    \/ \E j \in 1..Len(decoding) : LoaderSend(j)
    \/ \E w \in Workers : SaverThread(w)

AdvanceSpec == AdvanceInit /\ [][AdvanceNext]_vars

(* ---------------------- waiting for the current image ------------------- *)
\* the operator crops, moves on and starts over, then leaves the program
\* alone; frames keep coming and the threads of both pools keep running

WaitInputs ==
    {<<{k}, None, None>> : k \in {"enter", "space"}}
    \cup {<<{}, "start_over", None>>}
    \cup {<<{}, None, d>> : d \in Shapes}

WaitTick ==
    \E in \in WaitInputs :
        /\ calls + Cost(in[1], in[2]) <= MaxWait
        /\ calls' = calls + Cost(in[1], in[2])
        /\ last' = IF Cost(in[1], in[2]) = 0 THEN last ELSE Command(in[1], in[2])
        /\ UpdateCall(in[1], in[2], in[3])
        /\ UNCHANGED cmds

(* a frame in which the operator does nothing *)
IdleFrame ==
    /\ UpdateCall({}, None, None)
    /\ UNCHANGED <<cmds, apivars>>

WaitInit == Init /\ concurrency = 1 /\ format = "png" /\ ~resave

WaitNext ==
    \/ WaitTick
    \/ IdleFrame
    \/ \E i \in 1..Len(path_tx) : LoaderDecode(i)
    \/ \E j \in 1..Len(decoding) : LoaderSend(j)
    \/ \E w \in Workers : SaverThread(w)

WaitSpec == WaitInit /\ [][WaitNext]_vars

\* an idle frame would change nothing
Settled == [UpdateResult(Cur, {}, None, None) EXCEPT !.ret = FALSE] = Cur

(* eframe keeps calling update(); the threads of both pools run. The first *)
(* conjunct is WF_vars(IdleFrame) written out: an idle frame that changes  *)
(* something is possible exactly when the window is open and not Settled   *)
WaitFairness ==
    /\ []<>(closed \/ Settled) \/ []<><<IdleFrame>>_vars
    /\ WF_vars(\E i \in 1..Len(path_tx) : LoaderDecode(i))
    /\ WF_vars(\E j \in 1..Len(decoding) : LoaderSend(j))
    /\ \A w \in 1..MaxWorkers : WF_vars(SaverThread(w))

WaitFairSpec == WaitSpec /\ WaitFairness

(* ------------------- the Saver driven through its API ------------------- *)
\* tests/saver.rs: the caller queues requests, each built as crop_selections
\* builds it, and polls check_completions

(* saver.queue_save(request) for the i-th source file *)
QueueSaveCall(i) ==
    /\ i \in 1..Len(files)
    /\ Len(queued) < MaxCalls
    /\ LET q == QueueSave(Cur, WithExtension(files[i], Extension(format)), files[i])
       IN  /\ pending_saves' = q.pending_saves
           /\ save_rx' = q.save_rx
           /\ next_id' = q.next_id
           /\ queued' = q.queued
    /\ UNCHANGED <<cfgvars, appvars, loadervars, save_status, wk, fs, observed, cmds, faults,
                   apivars>>

(* saver.check_completions() *)
CheckCompletionsCall ==
    /\ LET c == CheckCompletions(Cur)
       IN  /\ pending_saves' = c.pending_saves
           /\ save_status' = c.save_status
           /\ observed' = c.observed
           /\ status' = c.status
    /\ UNCHANGED <<cfgvars, files, current_index, image, texture, selections,
                   finished, is_exiting, exit_attempt_count, list_completed,
                   windowed_mode_set, closed, loadervars, save_rx, wk, fs,
                   next_id, queued, cmds, faults, apivars>>

\* the originals directory may hold a file of an earlier run
Leftover == (FileAt(OriginalsDir, SourceFiles[1], 0) :> <<"orig", "old">>) @@ InitialFs

SaverInit ==
    /\ concurrency \in 0..MaxWorkers
    /\ format \in {c.format : c \in Configs}
    /\ resave = FALSE
    /\ dry_run = FALSE
    /\ files = SourceFiles
    /\ current_index = 0
    /\ image = NoPath
    /\ texture = FALSE
    /\ selections = <<>>
    /\ status = "Ready"
    /\ finished = FALSE
    /\ is_exiting = FALSE
    /\ exit_attempt_count = 0
    /\ list_completed = FALSE
    /\ windowed_mode_set = FALSE
    /\ closed = FALSE
    /\ cache = {}
    /\ history = <<>>
    /\ loading_active = FALSE
    /\ pending = {}
    /\ path_tx = <<>>
    /\ decoding = <<>>
    /\ preload_rx = <<>>
    /\ pending_saves = <<>>
    /\ save_rx = <<>>
    /\ save_status = <<>>
    /\ wk = [w \in 1..concurrency |-> IdleWorker]
    /\ fs \in {InitialFs, Leftover}
    /\ next_id = 1
    /\ queued = <<>>
    /\ observed = <<>>
    /\ cmds = 0
    /\ faults = 0
    /\ calls = 0
    /\ last = NoCall

SaverNext ==
    \/ \E i \in 1..Len(files) : QueueSaveCall(i)
    \/ CheckCompletionsCall
    \/ \E w \in Workers : SaverThread(w)

SaverSpec == SaverInit /\ [][SaverNext]_vars

(* wait_for_save keeps calling check_completions; every pool thread runs *)
SaverFairness ==
    /\ WF_vars(CheckCompletionsCall)
    /\ \A w \in 1..MaxWorkers : WF_vars(SaverThread(w))

SaverFairSpec == SaverSpec /\ SaverFairness

(* ------------------- the Loader driven through its API ------------------ *)
\* tests/loader.rs: the caller asks for paths, polls with update() and takes
\* records out of the cache

\* the state of everything but the Loader and the disk when only the Loader
\* (or only the History) is exercised
AppOff ==
    /\ concurrency = 0
    /\ format = "png"
    /\ resave = FALSE
    /\ dry_run = FALSE
    /\ files = SourceFiles
    /\ current_index = 0
    /\ image = NoPath
    /\ texture = FALSE
    /\ selections = <<>>
    /\ status = "Ready"
    /\ finished = FALSE
    /\ is_exiting = FALSE
    /\ exit_attempt_count = 0
    /\ list_completed = FALSE
    /\ windowed_mode_set = FALSE
    /\ closed = FALSE
    /\ loading_active = FALSE
    /\ pending_saves = <<>>
    /\ save_rx = <<>>
    /\ save_status = <<>>
    /\ wk = [w \in 1..concurrency |-> IdleWorker]
    /\ next_id = 1
    /\ queued = <<>>
    /\ observed = <<>>
    /\ cmds = 0
    /\ faults = 0
    /\ calls = 0

AppIdle == AppOff /\ last = NoCall

LoaderOff ==
    /\ cache = {} /\ history = <<>>
    /\ pending = {} /\ path_tx = <<>> /\ decoding = <<>> /\ preload_rx = <<>>

\* a disk on which the second source file cannot be read
SecondMissing == [n \in {MainFile(SourceFiles[1])} |-> InitialFs[n]]

(* Loader::new *)
LoaderInit ==
    /\ AppIdle
    /\ cache = {}
    /\ history = <<>>
    /\ pending = {}
    /\ path_tx = <<>>
    /\ decoding = <<>>
    /\ preload_rx = <<>>
    /\ fs \in {InitialFs, SecondMissing}

(* loader.load_image(path); hit tells that the path was sent to the threads *)
LoadCall(p) ==
    /\ calls < MaxLoaderCalls
    /\ LET r == LoadImage(Cur, p)
       IN  /\ pending' = r.pending
           /\ path_tx' = r.path_tx
           /\ last' = [NoCall EXCEPT !.op = "load", !.path = p,
                                     !.hit = (r.path_tx # path_tx)]
    /\ calls' = calls + 1
    /\ UNCHANGED <<cfgvars, appvars, cache, history, loading_active, decoding, preload_rx,
                   savervars, fs, logvars>>

(* loader.update() *)
PollCall ==
    /\ LET r == LoaderUpdate(Cur)
       IN  /\ pending' = r.pending
           /\ cache' = r.cache
           /\ preload_rx' = r.preload_rx
    /\ UNCHANGED <<cfgvars, appvars, history, loading_active, path_tx, decoding,
                   savervars, fs, logvars, apivars>>

(* loader.get_from_cache(&path); hit tells that a record was returned *)
TakeCall(p) ==
    /\ calls < MaxLoaderCalls
    /\ cache' = GetFromCache(Cur, p).cache
    /\ last' = [NoCall EXCEPT !.op = "take", !.path = p, !.hit = (p \in cache)]
    /\ calls' = calls + 1
    /\ UNCHANGED <<cfgvars, appvars, history, loading_active, pending, path_tx,
                   decoding, preload_rx, savervars, fs, logvars>>

LoaderNext ==
    \/ \E i \in 1..Len(SourceFiles) : LoadCall(SourceFiles[i])
    \/ PollCall
    \/ \E i \in 1..Len(SourceFiles) : TakeCall(SourceFiles[i])
    \/ \E i \in 1..Len(path_tx) : LoaderDecode(i)
    \/ \E j \in 1..Len(decoding) : LoaderSend(j)

LoaderSpec == LoaderInit /\ [][LoaderNext]_vars

(* the caller keeps polling; the preloader threads run *)
LoaderFairness ==
    /\ WF_vars(PollCall)
    /\ WF_vars(\E i \in 1..Len(path_tx) : LoaderDecode(i))
    /\ WF_vars(\E j \in 1..Len(decoding) : LoaderSend(j))

LoaderFairSpec == LoaderSpec /\ LoaderFairness

(* ------------------ the History driven through its API ----------------- *)
\* tests/loader.rs, history_keeps_only_ten_entries: records with the paths
\* 1.png, 2.png, .. are pushed; pops may come in between

HistoryEntry(k) ==
    [path |-> [stem |-> ToString(k), ext |-> "png"],
     image |-> [stem |-> ToString(k), ext |-> "png"]]

HistoryInit ==
    /\ AppIdle
    /\ cache = {}
    /\ history = <<>>
    /\ pending = {}
    /\ path_tx = <<>>
    /\ decoding = <<>>
    /\ preload_rx = <<>>
    /\ fs = InitialFs

(* loader.push_history(record); calls counts the pushes *)
PushCall ==
    /\ calls < MaxPush
    /\ history' = PushHistory(history, HistoryEntry(calls + 1))
    /\ calls' = calls + 1
    /\ last' = [last EXCEPT !.op = "push"]
    /\ UNCHANGED <<cfgvars, appvars, cache, loading_active, pending, path_tx,
                   decoding, preload_rx, savervars, fs, logvars>>

(* loader.pop_history(); hit tells that a record was returned, and index   *)
(* is 1 from the first pop on                                              *)
PopCall ==
    /\ history' = PopHistory(history)
    /\ last' = [last EXCEPT !.op = "pop", !.hit = (history # <<>>), !.index = 1]
    /\ UNCHANGED <<cfgvars, appvars, cache, loading_active, pending, path_tx,
                   decoding, preload_rx, savervars, fs, logvars, calls>>

HistoryNext == PushCall \/ PopCall

HistorySpec == HistoryInit /\ [][HistoryNext]_vars

(* --------------------- collect_images on a directory -------------------- *)
\* an extension is the sequence of its characters, <<>> when the name has
\* none (Path::extension gives None); a name with an empty extension is
\* rejected like a name without one
Capitals == <<"A", "B", "C", "D", "E", "F", "G", "H", "I", "J", "K", "L", "M",
              "N", "O", "P", "Q", "R", "S", "T", "U", "V", "W", "X", "Y", "Z">>
Letters == <<"a", "b", "c", "d", "e", "f", "g", "h", "i", "j", "k", "l", "m",
             "n", "o", "p", "q", "r", "s", "t", "u", "v", "w", "x", "y", "z">>

(* str::to_ascii_lowercase *)
ToAsciiLowercase(chars) ==
    [i \in 1..Len(chars) |->
        IF \E k \in 1..Len(Capitals) : Capitals[k] = chars[i]
        THEN Letters[CHOOSE k \in 1..Len(Capitals) : Capitals[k] = chars[i]]
        ELSE chars[i]]

SUPPORTED_EXTENSIONS ==
    << <<"p", "n", "g">>, <<"j", "p", "g">>, <<"j", "p", "e", "g">>, <<"b", "m", "p">>,
       <<"g", "i", "f">>, <<"w", "e", "b", "p">>, <<"t", "i", "f", "f">>,
       <<"t", "i", "f">>, <<"i", "c", "o">>, <<"a", "v", "i", "f">> >>

(* is_supported_image *)
IsSupportedImage(name) ==
    /\ name.ext # <<>>
    /\ \E i \in 1..Len(SUPPORTED_EXTENSIONS) :
            SUPPORTED_EXTENSIONS[i] = ToAsciiLowercase(name.ext)

\* an entry of the tree under the scanned directory: depth counts the
\* sub-directories between the directory and the entry, kind is "file" (a
\* regular file), "dir" or "link" (a symbolic link to a regular file)
Entry(depth, stem, ext, kind) ==
    [depth |-> depth, name |-> [stem |-> stem, ext |-> ext], kind |-> kind]

TopEntries ==
    { Entry(0, "a", <<"P", "N", "G">>, "file"),
      Entry(0, "b", <<"j", "p", "g">>, "file"),
      Entry(0, "readme", <<"t", "x", "t">>, "file"),
      Entry(0, "README", <<>>, "file"),
      Entry(0, "s", <<"p", "n", "g">>, "link"),
      Entry(0, "d", <<"p", "n", "g">>, "dir") }

NestedEntries == { Entry(d, "image", <<"p", "n", "g">>, "file") : d \in 1..MaxDepth }

\* the arguments a path of the command line can be: the directory itself or
\* the path of a name directly under it, which may or may not exist
RootDir == [stem |-> ".", ext |-> <<>>]
RootArgs == {RootDir, [stem |-> "a", ext |-> <<"P", "N", "G">>],
             [stem |-> "readme", ext |-> <<"t", "x", "t">>]}

(* Path::exists, Path::is_file, Path::is_dir of an argument; is_file and   *)
(* is_dir follow symbolic links                                            *)
PathExists(tree, p) == p = RootDir \/ \E e \in tree : e.depth = 0 /\ e.name = p
PathIsFile(tree, p) ==
    p # RootDir /\ \E e \in tree : e.depth = 0 /\ e.name = p /\ e.kind \in {"file", "link"}
PathIsDir(tree, p) == p = RootDir

RECURSIVE SetToSeq(_)
\* the entries of a directory in the order the operating system lists them
SetToSeq(S) ==
    IF S = {} THEN <<>>
    ELSE LET x == CHOOSE y \in S : TRUE IN <<x>> \o SetToSeq(S \ {x})

(* collect_images: the body of the loop for a directory. WalkDir with      *)
(* follow_links(false) reports a symbolic link as a link, p.is_file() of   *)
(* the read_dir branch follows it                                          *)
CollectDir(tree, recursive) ==
    IF recursive
    THEN SetToSeq({e \in tree : e.kind = "file" /\ IsSupportedImage(e.name)})
    ELSE SetToSeq({e \in tree : /\ e.depth = 0
                                /\ e.kind \in {"file", "link"}
                                /\ IsSupportedImage(e.name)})

RECURSIVE CollectLoop(_, _, _, _)
(* collect_images: the loop over paths; got is the vector files so far *)
CollectLoop(paths, tree, recursive, got) ==
    IF paths = <<>> THEN [ok |-> TRUE, files |-> got]
    ELSE IF ~PathExists(tree, Head(paths)) THEN [ok |-> FALSE, files |-> <<>>]
    ELSE CollectLoop(Tail(paths), tree, recursive,
            IF PathIsFile(tree, Head(paths))
            THEN IF IsSupportedImage(Head(paths))
                 THEN Append(got, CHOOSE e \in tree : e.depth = 0 /\ e.name = Head(paths))
                 ELSE got
            ELSE IF PathIsDir(tree, Head(paths))
            THEN got \o CollectDir(tree, recursive)
            ELSE got)

(* collect_images *)
CollectImages(paths, tree, recursive) == CollectLoop(paths, tree, recursive, <<>>)

\* every call collect_images(paths, recursive) on every tree
CollectArgs ==
    [paths : UNION {[1..n -> RootArgs] : n \in 1..MaxRoots},
     tree : SUBSET (TopEntries \cup NestedEntries),
     recursive : BOOLEAN]

CollectInit ==
    /\ AppOff /\ LoaderOff /\ fs = InitialFs
    /\ \E a \in CollectArgs : last = [op |-> "none", arg |-> a, result |-> None]

CollectCall ==
    /\ calls = 0
    /\ calls' = 1
    /\ last' = [op |-> "collect_images", arg |-> last.arg,
                result |-> CollectImages(last.arg.paths, last.arg.tree, last.arg.recursive)]
    /\ UNCHANGED <<cfgvars, appvars, loadervars, savervars, fs, logvars>>

CollectSpec == CollectInit /\ [][CollectCall]_vars

(* -------------------- unique_destination on a directory ----------------- *)
\* a file name is the sequence of its characters and a directory the set of
\* the names in it

DecimalDigits == <<"0", "1", "2", "3", "4", "5", "6", "7", "8", "9">>

RECURSIVE Decimal(_)
(* the {idx} of format! *)
Decimal(n) ==
    IF n < 10 THEN <<DecimalDigits[n + 1]>>
    ELSE Decimal(n \div 10) \o <<DecimalDigits[(n % 10) + 1]>>

(* split_name: name.rsplit_once('.'); has_ext is false for the None of a   *)
(* name without a dot                                                      *)
split_name(file_name) ==
    LET dots == {i \in 1..Len(file_name) : file_name[i] = "."}
        d == CHOOSE i \in dots : \A j \in dots : j <= i
    IN  IF dots = {}
        THEN [stem |-> file_name, has_ext |-> FALSE, ext |-> <<>>]
        ELSE [stem |-> SubSeq(file_name, 1, d - 1), has_ext |-> TRUE,
              ext |-> SubSeq(file_name, d + 1, Len(file_name))]

(* unique_destination: format!("{stem}-{idx}.{ext}") or format!("{stem}-{idx}") *)
new_name(parts, idx) ==
    IF parts.has_ext
    THEN parts.stem \o <<"-">> \o Decimal(idx) \o <<".">> \o parts.ext
    ELSE parts.stem \o <<"-">> \o Decimal(idx)

RECURSIVE first_free(_, _, _)
(* unique_destination: for idx in 1.. { .. if !candidate.exists() { break } } *)
first_free(dir, parts, idx) ==
    IF new_name(parts, idx) \in dir THEN first_free(dir, parts, idx + 1)
    ELSE new_name(parts, idx)

\* a variant that takes the first suffixed name without looking
unique_destination_unprobed(dir, file_name) ==
    IF file_name \notin dir THEN file_name ELSE new_name(split_name(file_name), 1)
(* unique_destination; the result is the name inside dir *)
unique_destination(dir, file_name) ==
    IF file_name \notin dir THEN file_name
    ELSE first_free(dir, split_name(file_name), 1)

\* the names asked for, each with the stem and extension it is made of
CandidateNames ==
    { [stem |-> <<"i", "m", "a", "g", "e">>, has_ext |-> TRUE, ext |-> <<"p", "n", "g">>],
      [stem |-> <<"R", "E", "A", "D", "M", "E">>, has_ext |-> FALSE, ext |-> <<>>],
      [stem |-> <<"a", ".", "t", "a", "r">>, has_ext |-> TRUE, ext |-> <<"g", "z">>] }

\* the name of a candidate with suffix k (k = 0: without suffix), k < 10
Named(c, k) ==
    c.stem \o (IF k = 0 THEN <<>> ELSE <<"-", ToString(k)>>)
           \o (IF c.has_ext THEN <<".">> \o c.ext ELSE <<>>)

UniqueArgs ==
    [dir : SUBSET {Named(c, k) : c \in CandidateNames, k \in 0..MaxTaken},
     file_name : {Named(c, 0) : c \in CandidateNames}]

UniqueInit ==
    /\ AppOff /\ LoaderOff /\ fs = InitialFs
    /\ \E a \in UniqueArgs : last = [op |-> "none", arg |-> a, result |-> None]

UniqueCall ==
    /\ calls = 0
    /\ calls' = 1
    /\ last' = [op |-> "unique_destination", arg |-> last.arg,
                result |-> unique_destination(last.arg.dir, last.arg.file_name)]
    /\ UNCHANGED <<cfgvars, appvars, loadervars, savervars, fs, logvars>>

UniqueSpec == UniqueInit /\ [][UniqueCall]_vars

(* ---------------------------- combine_crops ----------------------------- *)
\* image_utils::combine_crops as a function of the sizes of the crops: a
\* crop is <<width, height>>, the result the canvas size and the place of
\* every piece

MaxCrops == 3
MaxSide == 3

CropSizes == (1..MaxSide) \X (1..MaxSide)

\* crops.sort_by(|a, b| b.height().cmp(&a.height())): a stable sort
InsertByHeight(sorted, c) ==
    LET k == Cardinality({i \in 1..Len(sorted) : sorted[i][2] >= c[2]})
    IN  SubSeq(sorted, 1, k) \o <<c>> \o SubSeq(sorted, k + 1, Len(sorted))

RECURSIVE SortByHeight(_)
SortByHeight(crops) ==
    IF crops = <<>> THEN <<>>
    ELSE InsertByHeight(SortByHeight(SubSeq(crops, 1, Len(crops) - 1)), crops[Len(crops)])

RECURSIVE SumArea(_)
SumArea(crops) ==
    IF crops = <<>> THEN 0 ELSE crops[1][1] * crops[1][2] + SumArea(Tail(crops))

\* (total_area as f64).sqrt().ceil() as u32
SqrtCeil(n) == CHOOSE r \in 0..n : r * r >= n /\ (r = 0 \/ (r - 1) * (r - 1) < n)

max_width(crops) == SqrtCeil(SumArea(crops)) * 2

Max(a, b) == IF a >= b THEN a ELSE b

ShelfStart == [placed |-> <<>>, current_x |-> 0, current_y |-> 0, row_height |-> 0,
               canvas_width |-> 0, canvas_height |-> 0]

\* one round of the loop "for img in crops"
Place(st, img, budget) ==
    LET r == IF st.current_x + img[1] > budget /\ st.current_x > 0
             THEN [st EXCEPT !.current_x = 0, !.current_y = @ + st.row_height,
                             !.row_height = 0]
             ELSE st
        h == Max(r.row_height, img[2])
        x == r.current_x + img[1]
    IN  [r EXCEPT !.placed = Append(@, [x |-> r.current_x, y |-> r.current_y,
                                        w |-> img[1], h |-> img[2]]),
                  !.row_height = h,
                  !.current_x = x,
                  !.canvas_width = Max(@, x),
                  !.canvas_height = Max(@, r.current_y + h)]

RECURSIVE Shelf(_, _)
Shelf(crops, budget) ==
    IF crops = <<>> THEN ShelfStart
    ELSE Place(Shelf(SubSeq(crops, 1, Len(crops) - 1), budget), crops[Len(crops)], budget)

\* a variant that places the crops in the order given
combine_crops_unsorted(crops) ==
    LET st == Shelf(crops, max_width(crops))
    IN  [width |-> st.canvas_width, height |-> st.canvas_height, placed |-> st.placed]
(* combine_crops *)
combine_crops(crops) ==
    LET st == Shelf(SortByHeight(crops), max_width(crops))
    IN  [width |-> st.canvas_width, height |-> st.canvas_height, placed |-> st.placed]

CombineArgs == UNION {[1..n -> CropSizes] : n \in 1..MaxCrops}

CombineInit ==
    /\ AppOff /\ LoaderOff /\ fs = InitialFs
    /\ \E a \in CombineArgs : last = [op |-> "none", arg |-> a, result |-> None]

CombineCall ==
    /\ calls = 0
    /\ calls' = 1
    /\ last' = [op |-> "combine_crops", arg |-> last.arg, result |-> combine_crops(last.arg)]
    /\ UNCHANGED <<cfgvars, appvars, loadervars, savervars, fs, logvars>>

CombineSpec == CombineInit /\ [][CombineCall]_vars

(* ------------------------------ properties ------------------------------ *)
Range(seq) == {seq[i] : i \in 1..Len(seq)}
Count(seq, id) == Cardinality({i \in 1..Len(seq) : seq[i].id = id})

\* request ids by where the request or its status is
AcceptedIds == {q.id : q \in {r \in Range(queued) : r.accepted}}
RejectedIds == {q.id : q \in {r \in Range(queued) : ~r.accepted}}
QueueIds == {r.id : r \in Range(save_rx)}
WorkerIds == {wk[w].req.id : w \in {v \in Workers : wk[v].pc # "idle"}}
StatusIds == {r.id : r \in Range(save_status)}
ObservedIds == {r.id : r \in Range(observed)}

\* no request waits, is being worked on, or has an unobserved status
SaverQuiet == save_rx = <<>> /\ WorkerIds = {} /\ save_status = <<>>

(* C1: the window close command is never issued while pending_saves is     *)
(* non-empty, unless escape was pressed ExitThreshold times with saves     *)
(* outstanding                                                             *)
C1_NoCloseWhilePending ==
    closed => (pending_saves = <<>> \/ exit_attempt_count >= ExitThreshold)

\* a shutdown was requested while a save was outstanding, and the window
\* was closed after that save was observed
C1_Witness ==
    closed /\ exit_attempt_count > 0 /\ observed # <<>> /\ pending_saves = <<>>

(* C2: the escape press that brings the countdown to zero (the third one   *)
(* with saves outstanding) issues the close command in that same step      *)
C2_ThirdEscapeCloses ==
    [][(/\ exit_attempt_count' = ExitThreshold
        /\ exit_attempt_count # ExitThreshold
        /\ AcceptedIds \ ObservedIds # {})
        => closed']_vars

(* C3: once Exiting, pending_saves drains and the window is closed: when   *)
(* the pool has nothing left to do for the controller, pending_saves is    *)
(* empty, whatever happened before the shutdown request                    *)
C3_ExitingDrains ==
    (is_exiting /\ SaverQuiet) => pending_saves = <<>>

(* C4: a path is in pending_saves iff a request for it was accepted by the *)
(* Saver and its status has not been observed by check_completions         *)
C4_PendingIffOutstanding ==
    \A p \in Range(pending_saves) \cup {q.path : q \in Range(queued)} :
        InSeq(pending_saves, p)
        <=> \E q \in Range(queued) : q.path = p /\ q.accepted /\ q.id \notin ObservedIds

(* C5: with a pool of at least one thread, every queued request gets its   *)
(* status observed, and pending_saves is empty exactly when the statuses   *)
(* of all requests queued so far have been observed                        *)
C5_AllComplete ==
    /\ [](concurrency >= 1 =>
            (pending_saves = <<>> <=> {q.id : q \in Range(queued)} \subseteq ObservedIds))
    /\ \A k \in 1..Len(SourceFiles) :
            (concurrency >= 1 /\ k \in {q.id : q \in Range(queued)}) ~> (k \in ObservedIds)

\* two requests were queued to a pool of two threads and both were observed
C5_Witness ==
    concurrency = 2 /\ Len(queued) = 2 /\ Len(observed) = 2 /\ pending_saves = <<>>

(* C6: queue_save returns an error only when the request channel is        *)
(* closed; on success the destination is appended to pending_saves, and on *)
(* an error pending_saves is left as it was                                *)
C6_QueueResult ==
    [][next_id' # next_id =>
        LET r == queued'[Len(queued')]
        IN  /\ r.accepted <=> ChannelOpen
            /\ pending_saves' = IF r.accepted THEN Append(pending_saves, r.path)
                                ELSE pending_saves]_vars

(* C7: no file in the image directory (where the destinations are) is ever *)
(* partially written                                                       *)
C7_NoPartialDestination ==
    \A n \in DOMAIN fs : n[1] = MainDir => Complete(fs[n])

(* C8: no step moves a file of the image directory onto a name of the     *)
(* originals or trash holding area that already holds a file               *)
C8_NeverOverwrites ==
    [][\A n \in DOMAIN fs \cap DOMAIN fs' :
          n[1] \in {OriginalsDir, TrashDir} =>
             ~ \E m \in DOMAIN fs \ DOMAIN fs' :
                  m[1] = MainDir /\ fs'[n] = fs[m] /\ fs[n] # fs[m]]_vars

(* C9: when check_completions observes a success status, the destination   *)
(* exists, the file that was at original_path is in the originals area     *)
(* under the name the backup chose, and pending_saves holds the            *)
(* destination only for other requests that are still unobserved           *)
C9_SuccessObserved ==
    [][\A i \in (Len(observed) + 1)..Len(observed') :
          observed'[i].ok =>
             /\ Exists(fs, MainFile(observed'[i].path))
             /\ observed'[i].backed_up[1] = OriginalsDir
             /\ Exists(fs, observed'[i].backed_up)
             /\ fs[observed'[i].backed_up] = observed'[i].moved
             /\ InSeq(pending_saves', observed'[i].path) =>
                   \E q \in Range(queued') :
                       /\ q.path = observed'[i].path
                       /\ q.id \notin {observed'[j].id : j \in 1..Len(observed')}]_vars

\* a success was observed whose backup had to take a suffixed name
C9_Witness ==
    \E st \in Range(observed) : st.ok /\ st.backed_up[1] = OriginalsDir /\ st.backed_up[3] > 0

Rank(step) == CASE step = "backup" -> 1 [] step = "temp" -> 2
                [] step = "encode" -> 3 [] step = "publish" -> 4

\* backup first, then the temp file, then its encoding, then the publish
Ordered(steps) ==
    /\ \A i \in 1..Len(steps) : i = 1 => steps[i] = "backup"
    /\ \A i, j \in 1..Len(steps) : i < j => Rank(steps[i]) <= Rank(steps[j])
    /\ \A i \in 2..Len(steps) : Rank(steps[i]) <= Rank(steps[i - 1]) + 1

(* C10: a job does backup, encode-to-temp and publish in that order; after *)
(* a failed step it does nothing but report; every request has at most one *)
(* status and is in one place only (never queued again); and every         *)
(* queue_save call is caused by a command of the operator                  *)
C10_FailureAborts ==
    /\ \A w \in Workers : Ordered(wk[w].steps) /\ (~wk[w].ok => wk[w].pc = "send")
    /\ \A st \in Range(save_status) \cup Range(observed) : Ordered(st.steps)
    /\ \A id \in 1..(next_id - 1) :
          /\ Count(save_rx, id) + Count(save_status, id) + Count(observed, id)
               + Cardinality({w \in Workers : wk[w].req.id = id}) <= 1
          /\ id \in RejectedIds =>
               id \notin QueueIds \cup WorkerIds \cup StatusIds \cup ObservedIds
    /\ Len(queued) <= cmds

\* both an encoder failure and a failed backup have been reported
C10_Witness ==
    /\ \E st \in Range(observed) : ~st.ok /\ st.steps = <<"backup", "temp">>
    /\ \E st \in Range(observed) : ~st.ok /\ st.steps = <<>>

\* the file of path p can be read and decoded
Decodable(p) == Exists(fs, MainFile(p)) /\ Complete(fs[MainFile(p)])

\* decode jobs of path p that are queued, in progress or undelivered
Jobs(p) == Cardinality({i \in 1..Len(path_tx) : path_tx[i] = p})
           + Cardinality({i \in 1..Len(decoding) : decoding[i] = p})
           + Cardinality({i \in 1..Len(preload_rx) : preload_rx[i] = p})

(* C11: no path ever has more than one decode job outstanding, and a load  *)
(* call for a path that is cached or pending changes nothing in the Loader *)
C11_OneDecodePerPath ==
    /\ [](\A i \in 1..Len(SourceFiles) : Jobs(SourceFiles[i]) <= 1)
    /\ [][(calls' # calls /\ last'.op = "load"
            /\ (last'.path \in cache \/ last'.path \in pending))
          => UNCHANGED loadervars]_vars

\* a load call for a path whose job is still outstanding was ignored
C11_Witness ==
    last.op = "load" /\ ~last.hit /\ last.path \in pending /\ Jobs(last.path) = 1

(* C12: a path that has been asked for and whose file decodes is           *)
(* eventually in the cache, where take finds it                            *)
C12_LoadEventuallyCached ==
    \A i \in 1..Len(SourceFiles) :
        (SourceFiles[i] \in pending /\ Decodable(SourceFiles[i]))
            ~> (SourceFiles[i] \in cache)

\* the path asked for last has been decoded, delivered and cached
C12_Witness ==
    last.op = "load" /\ last.hit /\ last.path \in cache /\ last.path \notin pending

(* C13: take removes the record it returns, returns one exactly when the   *)
(* path was cached, changes nothing on a miss, and a record enters the     *)
(* cache only when a completed load is delivered                           *)
C13_TakeRemoves ==
    [][/\ (calls' # calls /\ last'.op = "take") =>
            /\ last'.hit <=> last'.path \in cache
            /\ last'.path \notin cache'
            /\ cache' = cache \ {last'.path}
            /\ UNCHANGED <<pending, path_tx, preload_rx, history>>
       /\ \A q \in cache' \ cache : InSeq(preload_rx, q)]_vars

\* a take returned a record, which is no longer cached
C13_Witness ==
    last.op = "take" /\ last.hit /\ last.path \notin cache /\ calls >= 2

(* C14: a failed decode deposits nothing in the cache, and a load call for *)
(* a path that is not cached and has no job outstanding starts a job       *)
C14_FailureRetryable ==
    /\ [](\A p \in cache : Decodable(p))
    /\ [][(calls' # calls /\ last'.op = "load"
            /\ last'.path \notin cache /\ Jobs(last'.path) = 0)
          => InSeq(path_tx', last'.path)]_vars

(* C15: the History never holds more than 10 records and keeps them in     *)
(* push order; a pop removes the newest; and while nothing has been        *)
(* popped it holds exactly the last 10 records pushed, so that after 12    *)
(* pushes the front is the 3rd and the back the 12th                       *)
C15_HistoryBounded ==
    /\ [](Len(history) <= HistoryCap)
    /\ [](\A i, j \in 1..Len(history) : i < j =>
            \E a, b \in 1..calls :
                a < b /\ history[i] = HistoryEntry(a) /\ history[j] = HistoryEntry(b))
    /\ [](last.index = 0 =>
            /\ Len(history) = (IF calls < HistoryCap THEN calls ELSE HistoryCap)
            /\ \A i \in 1..Len(history) :
                  history[i] = HistoryEntry(calls - Len(history) + i))
    /\ [][last'.op = "pop" /\ last'.hit /\ last' # last
          => history' = SubSeq(history, 1, Len(history) - 1)]_vars

\* twelve records pushed and none popped
C15_Witness ==
    /\ calls = 12 /\ last.index = 0 /\ Len(history) = 10
    /\ history[1] = HistoryEntry(3) /\ history[10] = HistoryEntry(12)

(* C16: go_back right after an advance made with the current image loaded  *)
(* and the cursor not at the last entry restores the cursor and the        *)
(* record, and sends no path to the decoder threads                        *)
C16_AdvanceGoBack ==
    [][(/\ calls' # calls
        /\ last'.op = "backspace"
        /\ last.op = "space"
        /\ last.hit
        /\ last.index + 1 < Len(files))
       => /\ current_index' = last.index
          /\ image' = last.image
          /\ texture'
          /\ path_tx' = path_tx]_vars

\* go_back has just undone an advance made from the loaded first image
C16_Witness ==
    /\ last.op = "backspace" /\ last.before = <<"space", TRUE, 0>>
    /\ current_index = 0 /\ image = SourceFiles[1] /\ texture

C18_CursorValid == current_index < Len(files) \/ list_completed

(* C19: the record shown as current is not at the same time in the cache   *)
(* or in the History                                                       *)
C19_RecordHeldOnce ==
    image # NoPath =>
        /\ image \notin cache
        /\ \A i \in 1..Len(history) : history[i].image # image

(* C20: no two requests with the same destination are unfinished (queued,  *)
(* being worked on or with an unobserved status) at the same time          *)
C20_OneEncodePerDestination ==
    \A q, r \in Range(queued) :
        (/\ q.id # r.id /\ q.accepted /\ r.accepted
         /\ q.id \notin ObservedIds /\ r.id \notin ObservedIds) => q.path # r.path

(* C21: a frame without a command that observes a failed save status, and  *)
(* in which no shutdown is under way, leaves the file list, the cursor and *)
(* the completed and exiting flags as they were and takes the observed     *)
(* paths off pending_saves; a decode that fails reaches the controller not *)
(* at all                                                                  *)
C21_FailureOnlyStatus ==
    [][/\ (/\ observed' # observed
           /\ calls' = calls
           /\ \E i \in 1..Len(save_status) : ~save_status[i].ok
           /\ ~finished)
          => /\ files' = files
             /\ current_index' = current_index
             /\ list_completed' = list_completed
             /\ is_exiting' = is_exiting
             /\ ~finished' /\ ~closed'
             /\ pending_saves' = DrainPending(pending_saves, save_status)
       /\ (Len(path_tx') < Len(path_tx) /\ decoding' = decoding)
          => UNCHANGED <<appvars, cache, history, loading_active, pending, pending_saves>>
      ]_vars

\* a failed save has been observed and the controller goes on as before
C21_Witness ==
    /\ \E i \in 1..Len(observed) : ~observed[i].ok
    /\ status = "Error saving"
    /\ ~list_completed /\ ~is_exiting /\ ~finished /\ ~closed
    /\ current_index < Len(files)

(* C22: a delete outside dry-run mode whose move to the trash succeeds     *)
(* takes exactly the entry at the cursor out of the file list, leaves no   *)
(* cached record of that path and keeps the cursor index: the cursor then  *)
(* addresses the entry that followed, or the list is flagged completed     *)
C22_DeleteRemovesCurrent ==
    [][(/\ calls' # calls
        /\ last'.op = "delete"
        /\ ~dry_run
        /\ HasCurrent(Poll(Cur))
        /\ MoveOk(Poll(Cur).fs, CurrentPath(Poll(Cur))))
       => LET p == Poll(Cur)
              i == p.current_index + 1
          IN  /\ files' = SubSeq(p.files, 1, i - 1) \o SubSeq(p.files, i + 1, Len(p.files))
              /\ p.files[i] \notin cache'
              /\ current_index' = p.current_index
              /\ ~Exists(fs', MainFile(p.files[i]))
              /\ \E k \in 0..Cardinality(DOMAIN fs) :
                    /\ ~Exists(fs, FileAt(TrashDir, p.files[i], k))
                    /\ Exists(fs', FileAt(TrashDir, p.files[i], k))
              /\ IF i < Len(p.files)
                 THEN files'[i] = p.files[i + 1] /\ list_completed' = p.list_completed
                 ELSE list_completed']_vars

\* the first of two files was deleted and the cursor addresses the second
C22_Witness ==
    /\ last.op = "delete" /\ last.index = 0 /\ ~dry_run
    /\ files = <<SourceFiles[2]>> /\ current_index = 0 /\ ~list_completed
    /\ Exists(fs, FileAt(TrashDir, SourceFiles[1], 0))

(* C23: in dry-run mode a delete command moves no file, queues no save job *)
(* and keeps every entry of the file list                                  *)
C23_DryRunDeleteTouchesNothing ==
    [][(/\ calls' # calls
        /\ last'.op = "delete"
        /\ dry_run
        /\ HasCurrent(Poll(Cur)))
       => /\ fs' = fs
          /\ queued' = queued
          /\ save_rx' = save_rx
          /\ pending_saves' = Poll(Cur).pending_saves
          /\ files' = Poll(Cur).files]_vars

(* C24: a crop with a valid rectangle on a loaded image, when queue_save   *)
(* accepts the request, queues exactly one request from the current path   *)
(* to the current path with the output extension, rewrites the slot at the *)
(* cursor to that destination and advances; when queue_save fails nothing  *)
(* is rewritten and the cursor stays; a frame without a command, whatever  *)
(* statuses it observes, leaves the file list as it is                     *)
C24_CropQueuesAndRewrites ==
    [][/\ (/\ calls' # calls
           /\ last'.op = "enter"
           /\ Poll(Cur).selections # <<>>
           /\ Poll(Cur).image # NoPath
           /\ HasCurrent(Poll(Cur)))
          => LET p == Poll(Cur)
                 i == p.current_index + 1
                 out == WithExtension(p.files[i], Extension(format))
             IN  IF ChannelOpen
                 THEN /\ queued' = Append(queued, [id |-> next_id, path |-> out,
                                                   original_path |-> p.files[i],
                                                   accepted |-> TRUE])
                      /\ Len(save_rx') = Len(save_rx) + 1
                      /\ save_rx'[Len(save_rx')].path = out
                      /\ save_rx'[Len(save_rx')].original_path = p.files[i]
                      /\ pending_saves' = Append(p.pending_saves, out)
                      /\ files' = [p.files EXCEPT ![i] = out]
                      /\ history' = PushHistory(p.history, [path |-> out, image |-> p.image])
                      /\ selections' = <<>>
                      /\ IF i < Len(p.files)
                         THEN current_index' = p.current_index + 1 /\ ~list_completed'
                         ELSE current_index' = p.current_index /\ list_completed'
                 ELSE /\ files' = p.files
                      /\ current_index' = p.current_index
                      /\ save_rx' = save_rx
                      /\ history' = p.history
                      /\ status' = "Failed to queue save"
       /\ calls' = calls => files' = files
      ]_vars

\* the first image was cropped: its slot names the output file, the request
\* was queued and the cursor moved on
C24_Witness ==
    /\ last.op = "enter" /\ last.index = 0 /\ last.hit
    /\ Len(queued) = 1 /\ queued[1].accepted
    /\ queued[1].original_path = SourceFiles[1]
    /\ files[1] = WithExtension(SourceFiles[1], Extension(format))
    /\ files[1] # SourceFiles[1]
    /\ current_index = 1
    /\ \E i \in 1..Len(observed) : ~observed[i].ok

\* C24 as the specification states it: every crop with a valid rectangle on
\* a loaded image queues the request, rewrites the slot and advances
C24_CropAlwaysQueues ==
    [][(/\ calls' # calls
        /\ last'.op = "enter"
        /\ Poll(Cur).selections # <<>>
        /\ Poll(Cur).image # NoPath
        /\ HasCurrent(Poll(Cur)))
       => LET p == Poll(Cur)
              i == p.current_index + 1
              out == WithExtension(p.files[i], Extension(format))
          IN  /\ Len(save_rx') = Len(save_rx) + 1
              /\ save_rx'[Len(save_rx')].path = out
              /\ save_rx'[Len(save_rx')].original_path = p.files[i]
              /\ files' = [p.files EXCEPT ![i] = out]
              /\ IF i < Len(p.files)
                 THEN current_index' = p.current_index + 1
                 ELSE list_completed']_vars

\* the stems of the names above whose extension is an image extension
ImageStems == {"a", "b", "s", "d", "image"}

(* C25: collect_images on directories returns exactly the regular files    *)
(* with an image extension, whatever its case: those directly in the       *)
(* directory when not recursive, those at any depth when recursive         *)
C25_CollectExact ==
    (/\ last.op = "collect_images"
     /\ \A i \in 1..Len(last.arg.paths) : last.arg.paths[i] = RootDir)
    => /\ last.result.ok
       /\ Range(last.result.files) =
            {e \in last.arg.tree : /\ e.kind = "file"
                                   /\ e.name.stem \in ImageStems
                                   /\ (last.arg.recursive \/ e.depth = 0)}

(* C26: unique_destination(dir, name) is name when dir has no such file,   *)
(* and otherwise stem-k.ext for the least k >= 1 that is not the name of a *)
(* file in dir; the result is never the name of a file in dir              *)
C26_UniqueDestination ==
    last.op = "unique_destination" =>
        LET dir == last.arg.dir
            c == CHOOSE x \in CandidateNames : Named(x, 0) = last.arg.file_name
        IN  /\ last.result \notin dir
            /\ last.arg.file_name \notin dir => last.result = last.arg.file_name
            /\ last.arg.file_name \in dir =>
                    \E k \in 1..(MaxTaken + 1) :
                        /\ last.result = Named(c, k)
                        /\ \A j \in 1..(k - 1) : Named(c, j) \in dir

\* image.png and image-1.png are taken and image-2.png is returned
C26_Witness ==
    /\ last.op = "unique_destination"
    /\ last.arg.file_name = <<"i", "m", "a", "g", "e", ".", "p", "n", "g">>
    /\ last.arg.file_name \in last.arg.dir
    /\ <<"i", "m", "a", "g", "e", "-", "1", ".", "p", "n", "g">> \in last.arg.dir
    /\ last.result = <<"i", "m", "a", "g", "e", "-", "2", ".", "p", "n", "g">>

(* C27: advance on a list with entries pushes the current record onto the  *)
(* History exactly when there is one (an image is shown); at the last      *)
(* entry it flags the list completed and keeps the cursor, and otherwise   *)
(* it moves the cursor on by one and either adopts the record of the new   *)
(* path from the cache or shows nothing and waits for it (Loading)         *)
C27_AdvanceSteps ==
    [][(calls' # calls /\ last'.op = "space" /\ Poll(Cur).files # <<>>) =>
        LET p == Poll(Cur)
            i == p.current_index + 1
        IN  /\ history' = IF p.image # NoPath
                          THEN PushHistory(p.history, [path |-> files'[i], image |-> p.image])
                          ELSE p.history
            /\ Len(files') = Len(p.files)
            /\ IF i >= Len(p.files)
               THEN /\ list_completed'
                    /\ current_index' = p.current_index
                    /\ image' = p.image
               ELSE /\ current_index' = p.current_index + 1
                    /\ ~list_completed'
                    /\ \/ /\ files'[i + 1] \in p.cache
                          /\ image' = files'[i + 1] /\ texture'
                          /\ files'[i + 1] \notin cache'
                       \/ /\ files'[i + 1] \notin p.cache
                          /\ image' = NoPath /\ ~texture'
                          /\ status' = "Loading" /\ loading_active']_vars

\* advance left the loaded first image for the second, which is not decoded
\* yet: the first is on the History and the controller waits
C27_Witness ==
    /\ last.op = "space" /\ last.index = 0 /\ last.hit
    /\ current_index = 1 /\ ~list_completed
    /\ Len(history) = 1 /\ history[1].image = SourceFiles[1]
    /\ image = NoPath /\ status = "Loading"

(* C28: advance on a list with entries calls queue_save for a conversion   *)
(* exactly when auto-convert is on, the extension of the current entry in  *)
(* lower case is not the extension of the output format and its image is   *)
(* loaded; when the request is accepted the slot is rewritten to the new   *)
(* path and the record goes onto the History under that path; in every     *)
(* other case advance queues nothing and rewrites nothing                  *)
C28_AutoConvert ==
    [][(calls' # calls /\ last'.op = "space" /\ Poll(Cur).files # <<>>) =>
        LET p == Poll(Cur)
            i == p.current_index + 1
            cur == p.files[i]
            differs == (cur.ext = "jpg" /\ format # "jpg") \/ (cur.ext = "PNG" /\ format # "png")
            out == [stem |-> cur.stem, ext |-> format]
        IN  IF resave /\ differs /\ p.image # NoPath
            THEN /\ queued' = Append(queued, [id |-> next_id, path |-> out,
                                              original_path |-> cur,
                                              accepted |-> ChannelOpen])
                 /\ IF ChannelOpen
                    THEN /\ files' = [p.files EXCEPT ![i] = out]
                         /\ save_rx' = Append(save_rx, [id |-> next_id, path |-> out,
                                                        original_path |-> cur,
                                                        format |-> format])
                         /\ history' = PushHistory(p.history, [path |-> out, image |-> p.image])
                    ELSE /\ files' = p.files
                         /\ save_rx' = save_rx
            ELSE /\ queued' = queued
                 /\ save_rx' = save_rx
                 /\ pending_saves' = p.pending_saves
                 /\ files' = p.files]_vars

\* with png as the target, leaving a.PNG queued nothing and leaving b.jpg
\* queued its conversion and renamed the slot
C28_Witness ==
    /\ last.op = "space" /\ last.index = 1 /\ last.hit
    /\ resave /\ format = "png"
    /\ Len(history) = 2 /\ history[1].path = CapitalFiles[1]
    /\ Len(queued) = 1 /\ queued[1].original_path = CapitalFiles[2]
    /\ files = <<CapitalFiles[1], [stem |-> "b", ext |-> "png"]>>

(* C29: Start Over is taken only on the completed screen; it clears the    *)
(* completed flag and sets the cursor to 0, keeps the file list, the       *)
(* History and pending_saves, and the controller is neither completed nor  *)
(* exiting afterwards                                                      *)
C29_Restart ==
    [][(calls' # calls /\ last'.op = "start_over") =>
        LET p == Poll(Cur)
        IN  /\ p.list_completed /\ ~p.is_exiting /\ ~p.finished
            /\ ~list_completed'
            /\ current_index' = 0
            /\ files' = p.files
            /\ history' = p.history
            /\ pending_saves' = p.pending_saves
            /\ ~is_exiting' /\ ~finished' /\ ~closed']_vars

\* the list of two files was completed from its second entry and started
\* over: the History still holds the records pushed on the way
C29_Witness ==
    /\ last.op = "start_over" /\ last.index = 1
    /\ current_index = 0 /\ ~list_completed /\ ~is_exiting
    /\ Len(files) = 2 /\ Len(history) >= 1

\* the controller shows nothing and waits for the image of the entry at the
\* cursor, whose file is on disk and complete
Waiting ==
    /\ ~closed /\ ~list_completed /\ ~is_exiting
    /\ current_index < Len(files)
    /\ image = NoPath
    /\ Decodable(files[current_index + 1])

(* C30: while frames keep coming and the threads keep running, the         *)
(* controller does not wait for ever for a current path that can be        *)
(* decoded: the record is adopted as current                               *)
C30_LoadingEnds == Waiting ~> ~Waiting

\* the threads that hold request id
Holders(id) == {w \in Workers : wk[w].pc # "idle" /\ wk[w].req.id = id}

(* C31: a request that queue_save accepted is at every moment in exactly   *)
(* one place: on the request channel, with one worker thread, on the       *)
(* status channel as one status, or observed once by the controller; a     *)
(* rejected request is in none of them                                     *)
C31_OneWorkerOneStatus ==
    /\ \A id \in AcceptedIds :
            Count(save_rx, id) + Cardinality(Holders(id))
            + Count(save_status, id) + Count(observed, id) = 1
    /\ \A id \in RejectedIds :
            Count(save_rx, id) + Cardinality(Holders(id))
            + Count(save_status, id) + Count(observed, id) = 0
    /\ \A id \in QueueIds \cup WorkerIds \cup StatusIds \cup ObservedIds : id \in AcceptedIds

\* two threads work on two requests at the same time
C31_Witness ==
    /\ concurrency = 2
    /\ wk[1].pc # "idle" /\ wk[2].pc # "idle"
    /\ wk[1].req.id # wk[2].req.id
    /\ {wk[1].req.id, wk[2].req.id} = AcceptedIds

\* the worker is in the fallback that follows a copy_metadata error
InFallback(r) == r.pc \in {"fb_check", "fb_rename"}

(* C32: when copy_metadata fails, the job that leaves the fallback has not *)
(* failed and the destination holds the complete encoded file of that      *)
(* request                                                                 *)
C32_MetadataFailureKeepsOutput ==
    [][\A w \in Workers :
          InFallback(wk[w]) /\ ~InFallback(wk'[w])
          => /\ wk'[w].ok
             /\ Exists(fs', MainFile(wk[w].req.path))
             /\ fs'[MainFile(wk[w].req.path)] = <<"enc", wk[w].req.id>>]_vars

Overlap(a, b) ==
    /\ a.x < b.x + b.w /\ b.x < a.x + a.w
    /\ a.y < b.y + b.h /\ b.y < a.y + a.h

\* the height of the row that starts at y
RowHeight(placed, upto, y) ==
    LET hs == {placed[j].h : j \in {k \in 1..upto : placed[k].y = y}}
    IN  CHOOSE h \in hs : \A g \in hs : g <= h

(* C34: combine_crops places every crop once, highest first; a piece goes  *)
(* right of the one before it, or at the start of a new row below when it  *)
(* would pass the width budget and the row is not empty; the placed        *)
(* rectangles do not overlap and lie inside the canvas, whose size is      *)
(* their bounding box                                                      *)
C34_CombinePlacement ==
    last.op = "combine_crops" =>
        LET crops == last.arg
            pl == last.result.placed
            n == Len(pl)
            budget == max_width(crops)
        IN  /\ n = Len(crops)
            /\ \A c \in CropSizes :
                    Cardinality({i \in 1..n : <<pl[i].w, pl[i].h>> = c})
                    = Cardinality({i \in 1..n : crops[i] = c})
            /\ \A i \in 1..(n - 1) : pl[i].h >= pl[i + 1].h
            /\ pl[1].x = 0 /\ pl[1].y = 0
            /\ \A i \in 2..n :
                    LET end == pl[i - 1].x + pl[i - 1].w
                    IN  IF end + pl[i].w > budget /\ end > 0
                        THEN /\ pl[i].x = 0
                             /\ pl[i].y = pl[i - 1].y + RowHeight(pl, i - 1, pl[i - 1].y)
                        ELSE pl[i].x = end /\ pl[i].y = pl[i - 1].y
            /\ \A i, j \in 1..n : i # j => ~Overlap(pl[i], pl[j])
            /\ \A i \in 1..n :
                    pl[i].x + pl[i].w <= last.result.width
                    /\ pl[i].y + pl[i].h <= last.result.height
            /\ \E i \in 1..n : pl[i].x + pl[i].w = last.result.width
            /\ \E i \in 1..n : pl[i].y + pl[i].h = last.result.height

\* the third of three crops did not fit the budget and starts a second row
C34_Witness ==
    /\ last.op = "combine_crops"
    /\ last.arg = <<<<3, 1>>, <<3, 2>>, <<3, 1>>>>
    /\ last.result.placed[1] = [x |-> 0, y |-> 0, w |-> 3, h |-> 2]
    /\ last.result.placed[3] = [x |-> 0, y |-> 2, w |-> 3, h |-> 1]
    /\ last.result.width = 6 /\ last.result.height = 3

\* the file of path p was moved to the trash: delete_current succeeded for p
Deleted(p) == \E k \in 0..Cardinality(DOMAIN fs) : Exists(fs, FileAt(TrashDir, p, k))

(* C35: the cache never holds a record for a path that was deleted, also   *)
(* not when a preloader thread was decoding that path at the delete and    *)
(* hands its record over afterwards                                        *)
C35_NoCachedRecordOfDeleted ==
    \A p \in cache : ~Deleted(p)

\* the complete file that name held is, after the step, no longer there
Destroyed(name) ==
    /\ Exists(fs, name) /\ Complete(fs[name])
    /\ ~Exists(fs', name) \/ fs'[name] # fs[name]

\* the step put the contents that name held into a holding directory
HeldBack(name) ==
    \E m \in DOMAIN fs' :
        /\ m[1] \in {OriginalsDir, TrashDir}
        /\ fs'[m] = fs[name]
        /\ ~Exists(fs, m)

(* C36: no step of a save (or of a delete) takes a complete file out of    *)
(* the scanned directory, or replaces its contents, without moving that    *)
(* file to the originals (or trash) directory in the same step; the        *)
(* destination of a publish is such a file when it is not the request's    *)
(* original                                                                 *)
C36_PublishDestroysNothing ==
    [][\A name \in DOMAIN fs :
          (name[1] = MainDir /\ Destroyed(name)) => HeldBack(name)]_vars

(* C37: with auto-convert on, a crop command makes one queue_save call and *)
(* no more: the advance inside crop_selections finds the slot already      *)
(* rewritten to the output extension and converts nothing                  *)
C37_CropQueuesOnce ==
    [][(/\ calls' # calls
        /\ last'.op = "enter"
        /\ resave
        /\ Poll(Cur).selections # <<>>
        /\ Poll(Cur).image # NoPath
        /\ HasCurrent(Poll(Cur)))
       => /\ Len(queued') = Len(queued) + 1
          /\ next_id' = next_id + 1
          /\ Len(save_rx') = Len(save_rx) + (IF ChannelOpen THEN 1 ELSE 0)
          /\ \A i \in 1..Len(save_rx) : save_rx'[i] = save_rx[i]]_vars

\* auto-convert is on, the first image had another extension than the
\* output format, it was cropped and one request was queued
C37_Witness ==
    /\ resave /\ last.op = "enter" /\ last.index = 0 /\ calls = 1
    /\ Len(queued) = 1 /\ queued[1].accepted
    /\ queued[1].original_path = SourceFiles[1]
    /\ queued[1].path.ext # SourceFiles[1].ext
    /\ current_index = 1

\* the frame reads the key k as its command
Pressed(k) == calls' # calls /\ last'.op = k

(* C38: exit_attempt_count counts the escapes given in a row while saves   *)
(* are outstanding: enter, space, backspace and delete set it to zero, an  *)
(* escape with rectangles drawn clears them and sets it to zero, it grows  *)
(* only by one and only by an escape without rectangles while a save is    *)
(* pending, and such an escape asks for the shutdown exactly when it is    *)
(* the third in a row                                                      *)
C38_ConsecutiveEscapes ==
    [][/\ (\E k \in {"enter", "space", "backspace", "delete"} : Pressed(k))
          => exit_attempt_count' = 0
       /\ (Pressed("escape") /\ Poll(Cur).selections # <<>>)
          => (exit_attempt_count' = 0 /\ selections' = <<>> /\ ~finished')
       /\ exit_attempt_count' > exit_attempt_count
          => /\ Pressed("escape")
             /\ Poll(Cur).selections = <<>>
             /\ Poll(Cur).pending_saves # <<>>
             /\ exit_attempt_count' = exit_attempt_count + 1
       /\ (/\ Pressed("escape")
           /\ Poll(Cur).selections = <<>>
           /\ Poll(Cur).pending_saves # <<>>)
          => /\ exit_attempt_count' = exit_attempt_count + 1
             /\ finished' <=> exit_attempt_count' = ExitThreshold
      ]_vars

\* a crop is being saved; escape was pressed once and counted, then space:
\* the count is zero again
C38_Witness ==
    /\ ~resave /\ calls = 3
    /\ last.op = "space" /\ last.before[1] = "escape"
    /\ Len(queued) = 1 /\ queued[1].accepted /\ observed = <<>>
    /\ pending_saves # <<>>
    /\ exit_attempt_count = 0
    /\ ~finished

(* C39: from request_shutdown on (finished is set) the controller stays    *)
(* that way and is, from its next frame on, is_exiting for good unless     *)
(* that frame closes the window; no command is read,                       *)
(* the file list, the cursor, the History and the completed flag stay as   *)
(* they are, no queue_save call is made and nothing is put on the request  *)
(* channel; pending_saves only loses entries                               *)
C39_ExitingAbsorbing ==
    [][/\ finished
          => /\ finished'
             /\ files' = files
             /\ current_index' = current_index
             /\ history' = history
             /\ list_completed' = list_completed
             /\ queued' = queued
             /\ Len(save_rx') <= Len(save_rx)
             /\ last' = last
             /\ Len(pending_saves') <= Len(pending_saves)
             /\ \A p \in Range(pending_saves') : p \in Range(pending_saves)
       /\ is_exiting => is_exiting'
       /\ finished => (is_exiting' \/ closed' \/ UNCHANGED <<appvars, cache, observed>>)
      ]_vars

\* the controller waits in the exiting branch for a save: the window was
\* made small and is still open
C39_Witness ==
    /\ finished /\ is_exiting /\ windowed_mode_set /\ ~closed
    /\ pending_saves # <<>>
    /\ Len(observed) < Len(queued)

\* the frame reads one of the commands crop, advance, go_back, delete
Navigates == \E k \in {"enter", "space", "backspace", "delete"} : Pressed(k)

\* the frame reads an escape that finds rectangles drawn and clears them
ClearsSelection == Pressed("escape") /\ Poll(Cur).selections # <<>>

(* C40: an escape without rectangles while a save is pending leaves        *)
(* exit_attempt_count above zero; it stays above zero until a crop,        *)
(* advance, go_back or delete command or an escape that clears rectangles  *)
(* is read; while it is above zero the frame that finds pending_saves      *)
(* empty requests the shutdown and closes the window, so the count is      *)
(* never above zero with nothing pending and no shutdown requested         *)
C40_DeferredExit ==
    /\ [](exit_attempt_count > 0 => (pending_saves # <<>> \/ finished))
    /\ [][/\ (/\ Pressed("escape")
              /\ Poll(Cur).selections = <<>>
              /\ Poll(Cur).pending_saves # <<>>) => exit_attempt_count' > 0
          /\ (exit_attempt_count > 0 /\ exit_attempt_count' = 0)
             => (Navigates \/ ClearsSelection)
          /\ (exit_attempt_count > 0 /\ pending_saves # <<>> /\ pending_saves' = <<>>)
             => (finished' /\ closed')
         ]_vars

\* escape was pressed once while a crop was being saved; the frame that
\* observed the save closed the window
C40_Witness ==
    /\ last.op = "escape" /\ exit_attempt_count = 1
    /\ Len(queued) = 1 /\ Len(observed) = 1
    /\ pending_saves = <<>>
    /\ finished /\ closed /\ ~is_exiting

\* C40 as the specification states it: only a crop, advance, go_back or
\* delete command takes the deferred exit back
C40_OnlyCommandsCancel ==
    /\ [](exit_attempt_count > 0 => (pending_saves # <<>> \/ finished))
    /\ [][/\ (/\ Pressed("escape")
              /\ Poll(Cur).selections = <<>>
              /\ Poll(Cur).pending_saves # <<>>) => exit_attempt_count' > 0
          /\ (exit_attempt_count > 0 /\ exit_attempt_count' = 0) => Navigates
          /\ (exit_attempt_count > 0 /\ pending_saves # <<>> /\ pending_saves' = <<>>)
             => (finished' /\ closed')
         ]_vars

====
